---- MODULE Spec2Model ----
(***************************************************************************)
(* Model of src/src/components/ExcelProcessor.tsx, the later iteration of  *)
(* the component (lines 793-2099): spreadsheet ingestion, the batched      *)
(* overall analysis (handleAnalyze) and the per-row topic classification   *)
(* (handleTopicsAnalysis).                                                 *)
(*                                                                         *)
(* JavaScript values are modelled as strings.  The module's strings are    *)
(* ASCII, so the Chinese literals of the source are transliterated; the    *)
(* original literal is given in a comment next to each definition.         *)
(* Indices (index, batchIndex, rowIndex, globalIndex) are 0-based as in    *)
(* the source; TLA+ sequences are 1-based, hence the "+ 1" on access.      *)
(***************************************************************************)
EXTENDS Integers, Sequences, FiniteSets, TLC

VARIABLES loading, tables, commonTopicsInput, reading, ingestMessage, runs, net

vars == <<loading, tables, commonTopicsInput, reading, ingestMessage, runs, net>>

-----------------------------------------------------------------------------
(* Bounds of the model.                                                    *)

\* BATCH_SIZE is 300 in the source (lines 909 and 1377); it is scaled down so
\* that a dataset of a few rows is split into several batches.
BATCH_SIZE == 2

\* uniqueCount >= 10 in the source (line 884), scaled down with the workbooks.
UNIQUE_THRESHOLD == 2

\* (rowIndex + 1) % 5 in the source (line 1429), scaled down with BATCH_SIZE.
PROGRESS_EVERY == 2

\* Number of handler invocations explored: by Spec, and by SpecAnalyzeDuo and
\* SpecTopicsDuo.
SoloRuns == 1

MaxRuns == 2

-----------------------------------------------------------------------------
(* JavaScript values.                                                      *)

\* undefined (a missing property, an optional field never assigned)
Undefined == "<undefined>"

\* a hole of a sparse array: what newData[globalIndex] = ... leaves between
\* the old end of the array and globalIndex
Hole == [hole |-> TRUE]

IsHole(row) == DOMAIN row = {"hole"}

\* truthiness of a string-or-undefined value
Truthy(v) == v # "" /\ v # Undefined

\* a || b
Or(a, b) == IF Truthy(a) THEN a ELSE b

\* row[c]
Get(row, c) == IF c \in DOMAIN row THEN row[c] ELSE Undefined

\* { ...row, [c]: v }; spreading undefined (a hole) gives no property
Put(row, c, v) ==
  LET base == IF IsHole(row) THEN {} ELSE DOMAIN row
  IN  [d \in base \cup {c} |-> IF d = c THEN v ELSE row[d]]

Min(a, b) == IF a <= b THEN a ELSE b

\* Array.prototype.slice(from, to), 0-based, to exclusive
Slice(arr, from, to) == SubSeq(arr, from + 1, Min(to, Len(arr)))

\* String.prototype.includes
Includes(s, p) ==
  \E i \in 1..(Len(s) - Len(p) + 1) : SubSeq(s, i, i + Len(p) - 1) = p

UpperChars == "ABCDEFGHIJKLMNOPQRSTUVWXYZ"

LowerChars == "abcdefghijklmnopqrstuvwxyz"

LowerChar(c) ==
  IF \E i \in 1..Len(UpperChars) : SubSeq(UpperChars, i, i) = c
  THEN LET i == CHOOSE j \in 1..Len(UpperChars) : SubSeq(UpperChars, j, j) = c
       IN  SubSeq(LowerChars, i, i)
  ELSE c

RECURSIVE ToLowerCase(_)
\* String.prototype.toLowerCase
ToLowerCase(s) ==
  IF s = "" THEN ""
  ELSE LowerChar(SubSeq(s, 1, 1)) \o ToLowerCase(SubSeq(s, 2, Len(s)))

RECURSIVE TrimStart(_)
TrimStart(s) ==
  IF s # "" /\ SubSeq(s, 1, 1) = " " THEN TrimStart(SubSeq(s, 2, Len(s))) ELSE s

RECURSIVE TrimEnd(_)
TrimEnd(s) ==
  IF s # "" /\ SubSeq(s, Len(s), Len(s)) = " "
  THEN TrimEnd(SubSeq(s, 1, Len(s) - 1)) ELSE s

\* String.prototype.trim
Trim(s) == TrimEnd(TrimStart(s))

-----------------------------------------------------------------------------
(* Literals of the source.                                                 *)

\* '无', the "no answer" sentinel (lines 868, 1214)
SENTINEL == "wu"

\* '分列' (line 854)
MARKER_FENLIE == "fenlie"

\* '姓名' and '系统号' (lines 943, 1466)
COL_NAME == "xingming"

COL_SYSID == "xitonghao"

\* '共性内容分析', the row property holding the classification (line 1422)
COL_TOPIC == "gongxing"

\* '分析失败' (line 1443) and '内容为空' (line 1287)
MARK_FAILED == "analysis-failed"

MARK_EMPTY == "content-empty"

\* '表格 - ' and '（共 ' n ' 条数据）' (line 1246)
NAME_PREFIX == "biaoge - "

NameSuffix(n) == "(gong " \o ToString(n) \o " tiao shuju)"

-----------------------------------------------------------------------------
(* Dataset names (lines 1246, 940, 1394).                                  *)

\* `表格 - ${column}（共 ${tableData.length} 条数据）`
TableName(column, n) == NAME_PREFIX \o column \o NameSuffix(n)

IsDigits(s) ==
  /\ s # ""
  /\ \A i \in 1..Len(s) : Includes("0123456789", SubSeq(s, i, i))

\* does t match /^（共 \d+ 条数据）$/
MatchesSuffix(t) ==
  LET open == "(gong "
      close == " tiao shuju)"
  IN  /\ Len(t) > Len(open) + Len(close)
      /\ SubSeq(t, 1, Len(open)) = open
      /\ SubSeq(t, Len(t) - Len(close) + 1, Len(t)) = close
      /\ IsDigits(SubSeq(t, Len(open) + 1, Len(t) - Len(close)))

RECURSIVE StripPrefix_all(_)
\* StripPrefix removing every repetition of the prefix
StripPrefix_all(s) ==
  IF Len(s) >= Len(NAME_PREFIX) /\ SubSeq(s, 1, Len(NAME_PREFIX)) = NAME_PREFIX
  THEN StripPrefix_all(SubSeq(s, Len(NAME_PREFIX) + 1, Len(s)))
  ELSE s

\* name.replace(/^表格 - /, '')
StripPrefix(s) ==
  IF Len(s) >= Len(NAME_PREFIX) /\ SubSeq(s, 1, Len(NAME_PREFIX)) = NAME_PREFIX
  THEN SubSeq(s, Len(NAME_PREFIX) + 1, Len(s))
  ELSE s

\* s.replace(/（共 \d+ 条数据）$/, ''): the leftmost match is removed
StripSuffix(s) ==
  LET starts == {i \in 1..Len(s) : MatchesSuffix(SubSeq(s, i, Len(s)))}
  IN  IF starts = {} THEN s
      ELSE LET i == CHOOSE j \in starts : \A k \in starts : j <= k
           IN  SubSeq(s, 1, i - 1)

\* const columnName = currentTable.name.replace(...).replace(...)
ExtractColumnName(name) == StripSuffix(StripPrefix(name))

-----------------------------------------------------------------------------
(* Column Selector (lines 851-885).                                        *)

shouldSkipColumn(columnName) ==
  LET lowerColumnName == ToLowerCase(columnName)
  IN  ~Includes(lowerColumnName, "text") /\ ~Includes(lowerColumnName, MARKER_FENLIE)

\* value !== undefined && value !== null && value !== '' && value !== '无'
IsValidValue(value) == value # Undefined /\ value # "" /\ value # SENTINEL

\* hasEnoughUniqueValues with uniqueCount > 10 for uniqueCount >= 10
hasEnoughUniqueValues_strict(data, columnName) ==
  LET validRows == SelectSeq(data, LAMBDA row : IsValidValue(Get(row, columnName)))
      trimmed == {Trim(validRows[i][columnName]) : i \in 1..Len(validRows)}
  IN  Cardinality(trimmed \ {""}) > UNIQUE_THRESHOLD

hasEnoughUniqueValues(data, columnName) ==
  LET validRows == SelectSeq(data, LAMBDA row : IsValidValue(Get(row, columnName)))
      trimmed == {Trim(validRows[i][columnName]) : i \in 1..Len(validRows)}
      uniqueValues == trimmed \ {""}
  IN  Cardinality(uniqueValues) >= UNIQUE_THRESHOLD

-----------------------------------------------------------------------------
(* Row Projector and dataset construction (lines 1173-1253).               *)

\* ProjectRow with the target value trimmed
ProjectRow_trimmed(row, index, firstThreeColumns, column) ==
  LET ident == {firstThreeColumns[i] : i \in 1..Len(firstThreeColumns)}
  IN  [c \in {"key"} \cup ident \cup {column} |->
         IF c = column THEN Trim(row[column])
         ELSE IF c \in ident THEN Or(Get(row, c), "")
         ELSE ToString(index)]

\* one projected row: key, the identity columns, then the analysed column
ProjectRow(row, index, firstThreeColumns, column) ==
  LET ident == {firstThreeColumns[i] : i \in 1..Len(firstThreeColumns)}
  IN  [c \in {"key"} \cup ident \cup {column} |->
         IF c = column THEN row[column]
         ELSE IF c \in ident THEN Or(Get(row, c), "")
         ELSE ToString(index)]

\* ProjectRows with the sentinel rows kept
ProjectRows_keepSentinel(jsonData, firstThreeColumns, column) ==
  LET kept == SelectSeq(jsonData, LAMBDA row : Get(row, column) # "")
  IN  [i \in 1..Len(kept) |-> ProjectRow(kept[i], i - 1, firstThreeColumns, column)]

ProjectRows(jsonData, firstThreeColumns, column) ==
  LET kept == SelectSeq(jsonData, LAMBDA row : IsValidValue(Get(row, column)))
  IN  [i \in 1..Len(kept) |-> ProjectRow(kept[i], i - 1, firstThreeColumns, column)]

\* the ProcessedTable pushed for one column (lines 1245-1252)
NewTable(jsonData, firstThreeColumns, column) ==
  LET tableData == ProjectRows(jsonData, firstThreeColumns, column)
  IN  [name |-> TableName(column, Len(tableData)),
       data |-> tableData,
       columns |-> firstThreeColumns \o <<column>>,
       analysis |-> Undefined,
       isAnalyzing |-> FALSE,
       commonTopics |-> <<>>,
       isAnalyzingTopics |-> FALSE,
       topicsAnalysis |-> Undefined,
       topicsApiStatus |-> Undefined,
       topicsApiMessage |-> Undefined,
       analysisApiStatus |-> Undefined,
       analysisApiMessage |-> Undefined]

\* BuildTables taking the first two columns as identity columns
BuildTables_firstTwo(jsonData, allColumns) ==
  LET firstThreeColumns == Slice(allColumns, 0, 2)
      remainingColumns ==
        SelectSeq(Slice(allColumns, 2, Len(allColumns)),
               LAMBDA col : ~shouldSkipColumn(col) /\ hasEnoughUniqueValues(jsonData, col))
  IN  [k \in 1..Len(remainingColumns) |->
         NewTable(jsonData, firstThreeColumns, remainingColumns[k])]

\* the tables built from a non-empty sheet (lines 1173-1253)
BuildTables(jsonData, allColumns) ==
  LET firstThreeColumns == Slice(allColumns, 0, 3)
      remainingColumns ==
        SelectSeq(Slice(allColumns, 3, Len(allColumns)),
               LAMBDA col : ~shouldSkipColumn(col) /\ hasEnoughUniqueValues(jsonData, col))
  IN  [k \in 1..Len(remainingColumns) |->
         NewTable(jsonData, firstThreeColumns, remainingColumns[k])]

-----------------------------------------------------------------------------
(* The files a user can upload.                                            *)

\* the messages of handleUpload and processExcelFile (antd message.error /
\* message.success): '请上传Excel文件！', 'Excel文件为空！',
\* '处理Excel文件时发生错误！', `Excel文件处理成功！共生成 ${tables.length} 个表格，...`
MSG_NONE == "none"

MSG_NOT_EXCEL == "error: please upload an Excel file"

MSG_EMPTY == "error: the Excel file is empty"

MSG_ERROR == "error: processing the Excel file failed"

MsgLoaded(n) == "success: " \o ToString(n) \o " tables"

\* a row record of sheet_to_json: every header column, '' for an empty cell
SheetRow(header, values) ==
  [c \in {header[i] : i \in 1..Len(header)} |->
     values[CHOOSE i \in 1..Len(header) : header[i] = c]]

HeaderA == <<COL_NAME, COL_SYSID, "bumen", "Q1_text", "Q2_single_choice", "Q3fenlie">>

FileA ==
  [ext |-> "xlsx", readable |-> TRUE, header |-> HeaderA,
   rows |-> << SheetRow(HeaderA, <<"zhang", "001", "d1", "a", "x", "p">>),
               SheetRow(HeaderA, <<"li", "002", "d1", SENTINEL, "y", "q">>),
               SheetRow(HeaderA, <<"", "003", "d2", " ", "x", "">>),
               SheetRow(HeaderA, <<"zhao", "004", "d2", "b", "y", SENTINEL>>),
               SheetRow(HeaderA, <<"sun", "005", "d2", "c", "x", "">>) >>]

HeaderB == <<"name", "id", "dept", "R_TEXT">>

FileB ==
  [ext |-> "xls", readable |-> TRUE, header |-> HeaderB,
   rows |-> << SheetRow(HeaderB, <<"ann", "101", "d3", "u">>),
               SheetRow(HeaderB, <<"bob", "102", "d3", SENTINEL>>),
               SheetRow(HeaderB, <<"cat", "103", "d3", " v">>),
               SheetRow(HeaderB, <<"", "104", "d4", "u">>) >>]

\* a workbook whose first sheet has no data row
FileEmpty == [ext |-> "xlsx", readable |-> TRUE, header |-> <<>>, rows |-> <<>>]

\* a file XLSX.read throws on
FileBad == [ext |-> "xlsx", readable |-> FALSE, header |-> <<>>, rows |-> <<>>]

\* not a spreadsheet by its extension
FileTxt == [ext |-> "txt", readable |-> FALSE, header |-> <<>>, rows |-> <<>>]

Files == {FileA, FileB, FileEmpty, FileBad, FileTxt}

NoFile == [ext |-> "none", readable |-> FALSE, header |-> <<>>, rows |-> <<>>]

\* the texts a user types into the topics input; ';' stands for the source's
\* delimiter '、' (line 1356 also splits on ',', '，' and newline)
TopicTexts == {"", "quality; ;service", " ; "}

-----------------------------------------------------------------------------
(* Ingestion (lines 1151-1280).                                            *)

\* handleUpload and the synchronous part of processExcelFile
handleUpload(file) ==
  /\ ~loading                         \* <Upload disabled={loading}>
  /\ IF file.ext \in {"xlsx", "xls"}
     THEN /\ loading' = TRUE
          /\ reading' = file
          /\ UNCHANGED ingestMessage
     ELSE /\ ingestMessage' = MSG_NOT_EXCEL     \* lines 1274-1277
          /\ UNCHANGED <<loading, reading>>
  /\ UNCHANGED <<tables, commonTopicsInput, runs, net>>

\* the message reader.onload ends with
MessageAfterLoad(file) ==
  IF ~file.readable THEN MSG_ERROR               \* line 1259
  ELSE IF Len(file.rows) = 0 THEN MSG_EMPTY      \* line 1166
  ELSE MsgLoaded(Len(BuildTables(file.rows, file.header)))   \* line 1256

\* TablesAfterLoad with the new datasets added to the list
TablesAfterLoad_append(file, old) ==
  IF ~file.readable THEN old
  ELSE IF Len(file.rows) = 0 THEN old
  ELSE old \o BuildTables(file.rows, file.header)

\* TablesAfterLoad with the list emptied before the workbook is parsed
TablesAfterLoad_cleared(file, old) ==
  IF ~file.readable THEN <<>>
  ELSE IF Len(file.rows) = 0 THEN <<>>
  ELSE BuildTables(file.rows, file.header)

\* the tables state after reader.onload has run for a file
TablesAfterLoad(file, old) ==
  IF ~file.readable THEN old                \* XLSX.read throws: catch
  ELSE IF Len(file.rows) = 0 THEN old       \* 'Excel文件为空！', return
  ELSE BuildTables(file.rows, file.header)  \* setTables(tables)

\* reader.onload
readerOnLoad ==
  /\ reading # NoFile
  /\ tables' = TablesAfterLoad(reading, tables)
  /\ loading' = FALSE
  /\ reading' = NoFile
  /\ ingestMessage' = MessageAfterLoad(reading)
  /\ UNCHANGED <<commonTopicsInput, runs, net>>

\* <Input onChange={e => setCommonTopicsInput(e.target.value)}>
setCommonTopicsInput(text) ==
  /\ Len(tables) > 0                  \* the input is rendered per table
  /\ text # commonTopicsInput
  /\ commonTopicsInput' = text
  /\ UNCHANGED <<loading, tables, reading, ingestMessage, runs, net>>

-----------------------------------------------------------------------------
(* Handler invocations ("runs") and the LLM backend.                       *)

RunIds == 1..MaxRuns

\* a slot no handler invocation has used yet
NoRun == [kind |-> "none", pc |-> "idle"]

\* the slot the next handler invocation takes
FreeRun == CHOOSE r \in RunIds : runs[r].kind = "none" /\ \A q \in 1..(r - 1) : runs[q].kind # "none"

HasFreeRun == \E r \in RunIds : runs[r].kind = "none"

\* What the backend can do with one request:
\*   ok         2xx, choices[0].message.content is a non-empty string
\*   empty      2xx, choices[0].message.content is ''
\*   nocontent  2xx, choices[0].message has no content
\*   nochoices  2xx, no choices / no choices[0] / no message
\*   badjson    2xx, the body is not JSON
\*   http       a non-2xx status
\*   neterr     the request itself fails
Outcomes == {"ok", "empty", "nocontent", "nochoices", "badjson", "http", "neterr"}

\* the text the model returns for a request; it names the request it answers
ReplyContent(req) ==
  IF req.kind = "agg" THEN "summary of run " \o ToString(req.run)
  ELSE "reply to " \o req.kind \o " " \o ToString(req.at + 1)

\* result.choices[0].message.content of a 2xx JSON body with a message
MessageContent(req, outcome) ==
  CASE outcome = "ok" -> ReplyContent(req)
    [] outcome = "empty" -> ""
    [] OTHER -> Undefined

\* no request awaited
NoRequest == [kind |-> "none"]

\* the entry in the network of the request a run has sent last
InFlight(r, run) == [run |-> r, n |-> Len(run.sent)]

\* what a run awaits: nothing once its handler has returned
Awaited(r, run) == IF run.pc = "done" THEN {} ELSE {InFlight(r, run)}

\* NetAfter for a handler that does not await the request it has sent before
\* it sends the next one
NetAfter_noAwait(n, r, before, after) == n \cup Awaited(r, after)

\* The network after a step that takes run r from `before` to `after`: the
\* handler was resumed by the completion of the request it awaited, and it
\* runs up to its next await.
NetAfter(n, r, before, after) == (n \ {InFlight(r, before)}) \cup Awaited(r, after)

\* fetch(...) / axios.post(...): the run keeps the request it awaits and a
\* log of what it has sent so far
Send(run, req) ==
  [run EXCEPT !.request = req,
              !.sent = Append(@, IF req.kind = "agg" THEN "agg"
                                 ELSE req.kind \o ToString(req.at))]

\* the handler has returned: its locals are gone; the number of rows it worked
\* on, the logs of its requests and of the failed ones, and the message.success
\* or message.error it ended with remain
Finished(run, result) ==
  [kind |-> run.kind, pc |-> "done", index |-> run.index, rows |-> run.rows,
   sent |-> run.sent, failed |-> run.failed, result |-> result]

\* the outcomes in which the backend delivers no text at all: a transport
\* error, a non-2xx status or a malformed body
BadOutcomes == {"nocontent", "nochoices", "badjson", "http", "neterr"}

\* A response (or the failure of the request) reaches the run.  The run's log
\* of the requests the backend failed: the batch index or global row index of
\* a batch or row request, "agg" for the final request.
Receive(run, outcome) ==
  IF outcome \in BadOutcomes
  THEN [run EXCEPT !.failed = @ \cup {run.sent[Len(run.sent)]}]
  ELSE run

\* { ...t, field: value, ... }
Spread(t, fields) ==
  [f \in DOMAIN t \cup DOMAIN fields |-> IF f \in DOMAIN fields THEN fields[f] ELSE t[f]]

\* SetTable without the test i === index: every dataset gets the fields
SetTable_all(tbls, index, fields) ==
  [i \in 1..Len(tbls) |-> Spread(tbls[i], fields)]

\* setTables(prev => prev.map((t, i) => i === index ? { ...t, ...fields } : t))
SetTable(tbls, index, fields) ==
  [i \in 1..Len(tbls) |-> IF i = index + 1 THEN Spread(tbls[i], fields) ELSE tbls[i]]

\* MakeBatches with the loop condition i + BATCH_SIZE <= data.length: the
\* rows after the last full batch are dropped
RECURSIVE MakeBatches_fullOnly(_, _)
MakeBatches_fullOnly(data, i) ==
  IF i + BATCH_SIZE <= Len(data)
  THEN <<Slice(data, i, i + BATCH_SIZE)>> \o MakeBatches_fullOnly(data, i + BATCH_SIZE)
  ELSE <<>>

\* for (let i = 0; i < data.length; i += BATCH_SIZE) batches.push(data.slice(i, i + BATCH_SIZE))
RECURSIVE MakeBatches(_, _)
MakeBatches(data, i) ==
  IF i < Len(data)
  THEN <<Slice(data, i, i + BATCH_SIZE)>> \o MakeBatches(data, i + BATCH_SIZE)
  ELSE <<>>

\* `${row['姓名'] || ''}-${row['系统号'] || ''}`
UserInfo(row) == Or(Get(row, COL_NAME), "") \o "-" \o Or(Get(row, COL_SYSID), "")

\* row[columnName] || row[currentTable.name] || ''
RowContent(row, columnName, tableName) ==
  Or(Get(row, columnName), Or(Get(row, tableName), ""))

-----------------------------------------------------------------------------
(* handleAnalyze (lines 892-1144).                                         *)

\* batch.map(row => ({ 用户信息, 问题内容 })); map skips the holes of an array
BatchData(batch, columnName, tableName) ==
  [i \in 1..Len(batch) |->
     IF IsHole(batch[i]) THEN Hole
     ELSE [userInfo |-> UserInfo(batch[i]),
           content |-> RowContent(batch[i], columnName, tableName)]]

\* the message of the error thrown while a batch request is handled
BatchErrorMessage(batchIndex, outcome) ==
  CASE outcome = "http" ->
         "batch" \o ToString(batchIndex + 1) \o " API request failed: 500"
    [] outcome = "nochoices" ->
         "batch" \o ToString(batchIndex + 1) \o " API returned malformed data"
    [] outcome = "badjson" -> "Unexpected token < in JSON"
    [] outcome = "neterr" -> "Failed to fetch"
    [] OTHER -> "Cannot read properties of undefined (reading 'length')"

\* `批次${batchIndex + 1}分析失败: ${message}` (line 1035)
BatchPlaceholder(batchIndex, outcome) ==
  "batch" \o ToString(batchIndex + 1) \o " analysis failed: "
    \o BatchErrorMessage(batchIndex, outcome)

\* batchResults after the try/catch of lines 1004-1036 for one batch
PushBatchResult(batchResults, batchIndex, req, outcome) ==
  IF outcome \in {"http", "nochoices", "badjson", "neterr"}
  THEN Append(batchResults, BatchPlaceholder(batchIndex, outcome))
  ELSE LET content == MessageContent(req, outcome)
           pushed == Append(batchResults, content)           \* line 1030
       IN  IF content = Undefined
           THEN \* line 1031 reads content.length: TypeError, caught at 1033
                Append(pushed, BatchPlaceholder(batchIndex, outcome))
           ELSE pushed

\* AnalyzeAggSucceeds without the read of analysisResult.length (line 1114)
AnalyzeAggSucceeds_noLengthRead(outcome) ==
  outcome \notin {"http", "nochoices", "badjson", "neterr"}

\* does the final request of handleAnalyze reach line 1117
AnalyzeAggSucceeds(outcome) ==
  /\ outcome \notin {"http", "nochoices", "badjson", "neterr"}
  /\ outcome # "nocontent"        \* line 1114 reads analysisResult.length

AggErrorMessage(outcome) ==
  CASE outcome = "http" -> "final summary API request failed: 500"
    [] outcome = "nochoices" -> "final summary API returned malformed data"
    [] outcome = "badjson" -> "Unexpected token < in JSON"
    [] outcome = "neterr" -> "Failed to fetch"
    [] OTHER -> "Cannot read properties of undefined (reading 'length')"

\* the state update of lines 899-906
AnalyzeStarted ==
  [isAnalyzing |-> TRUE,
   analysisApiStatus |-> "analyzing",
   analysisApiMessage |-> "running the overall analysis..."]

\* AnalyzeSucceeded written without the spread of the table's other fields:
\* the results of the topic analysis are gone
AnalyzeSucceeded_noSpread(analysisResult) ==
  [isAnalyzing |-> FALSE,
   analysis |-> analysisResult,
   analysisApiStatus |-> "success",
   analysisApiMessage |-> "overall analysis done",
   topicsAnalysis |-> Undefined,
   topicsApiStatus |-> Undefined,
   topicsApiMessage |-> Undefined]

\* the state update of lines 1117-1125
AnalyzeSucceeded(analysisResult) ==
  [isAnalyzing |-> FALSE,
   analysis |-> analysisResult,
   analysisApiStatus |-> "success",
   analysisApiMessage |-> "overall analysis done"]

\* AnalyzeFailed without isAnalyzing: false
AnalyzeFailed_flagKept(errorMessage) ==
  [analysisApiStatus |-> "error",
   analysisApiMessage |-> "analysis failed: " \o errorMessage]

\* AnalyzeFailed that stores the error text as the summary
AnalyzeFailed_storing(errorMessage) ==
  [isAnalyzing |-> FALSE,
   analysis |-> errorMessage,
   analysisApiStatus |-> "error",
   analysisApiMessage |-> "analysis failed: " \o errorMessage]

\* the state update of lines 1133-1140
AnalyzeFailed(errorMessage) ==
  [isAnalyzing |-> FALSE,
   analysisApiStatus |-> "error",
   analysisApiMessage |-> "analysis failed: " \o errorMessage]

\* From the top of the batch loop (line 928) to the next await: either the
\* request of batch run.batchIndex or, after the last batch, the final one.
AnalyzeNext(r, run, tbls) ==
  LET batches == run.batches
  IN  IF run.batchIndex < Len(batches)
      THEN [tables |-> SetTable(tbls, run.index, [analysisApiMessage |->
                           "processing batch " \o ToString(run.batchIndex + 1)
                             \o "/" \o ToString(Len(batches))]),
            run |-> Send([run EXCEPT !.pc = "batchWait"],
                         [kind |-> "batch", run |-> r, at |-> run.batchIndex,
                          batchData |-> BatchData(batches[run.batchIndex + 1],
                                                  run.columnName,
                                                  run.currentTable.name)])]
      ELSE [tables |-> SetTable(tbls, run.index, [analysisApiMessage |-> "batches done, summarizing..."]),
            run |-> Send([run EXCEPT !.pc = "aggWait"],
                         [kind |-> "agg", run |-> r, results |-> run.batchResults])]

\* handleAnalyze(index) up to its first await
handleAnalyze(index) ==
  /\ HasFreeRun
  /\ index \in 0..(Len(tables) - 1)
  /\ ~tables[index + 1].isAnalyzing                       \* line 893
  /\ LET r == FreeRun
         currentTable == tables[index + 1]
         batches == MakeBatches(currentTable.data, 0)
         started == SetTable(tables, index, AnalyzeStarted)
         announced == SetTable(started, index, [analysisApiMessage |->
                           "batch processing starts, " \o ToString(Len(batches))
                             \o " batches of at most " \o ToString(BATCH_SIZE)])
         run == [kind |-> "analyze", pc |-> "start", index |-> index,
                 currentTable |-> currentTable, topics |-> <<>>,
                 rows |-> Len(currentTable.data), batches |-> batches,
                 columnName |-> ExtractColumnName(currentTable.name),
                 batchIndex |-> 0, rowIndex |-> 0, batchResults |-> <<>>,
                 request |-> NoRequest, sent |-> <<>>, failed |-> {},
                 result |-> "none"]
         next == AnalyzeNext(r, run, announced)
     IN  /\ tables' = next.tables
         /\ runs' = [runs EXCEPT ![r] = next.run]
         /\ net' = NetAfter(net, r, run, next.run)
  /\ UNCHANGED <<loading, commonTopicsInput, reading, ingestMessage>>

\* the analysis button (lines 1740-1746)
AnalyzeButtonEnabled(index) ==
  /\ index \in 0..(Len(tables) - 1)
  /\ ~(tables[index + 1].isAnalyzing \/ Truthy(tables[index + 1].analysis))

clickAnalyze(index) == AnalyzeButtonEnabled(index) /\ handleAnalyze(index)

\* AfterBatchResponse without the try/catch around a batch (lines 1004 and
\* 1033-1036): the error of a batch reaches the handler's catch of line 1129
AfterBatchResponse_noInnerCatch(r, run, tbls, outcome) ==
  LET got == Receive(run, outcome)
      pushed == [got EXCEPT
                   !.batchResults = Append(@, MessageContent(run.request, outcome)),
                   !.batchIndex = @ + 1]
  IN  IF outcome \in BadOutcomes
      THEN [tables |-> SetTable(tbls, run.index, AnalyzeFailed(BatchErrorMessage(run.batchIndex, outcome))),
            run |-> Finished(got, "error")]
      ELSE AnalyzeNext(r, pushed, tbls)

\* lines 1018-1037 and the loop's next iteration: the handler resumes with
\* the outcome of the batch request and runs up to its next await
AfterBatchResponse(r, run, tbls, outcome) ==
  LET got == Receive(run, outcome)
      pushed == [got EXCEPT
                   !.batchResults = PushBatchResult(@, run.batchIndex, run.request, outcome),
                   !.batchIndex = @ + 1]
  IN  AnalyzeNext(r, pushed, tbls)

\* the response to a batch request arrives
analyzeBatchResponse(r, outcome) ==
  /\ runs[r].kind = "analyze"
  /\ runs[r].pc = "batchWait"
  /\ InFlight(r, runs[r]) \in net
  /\ LET next == AfterBatchResponse(r, runs[r], tables, outcome)
     IN  /\ tables' = next.tables
         /\ runs' = [runs EXCEPT ![r] = next.run]
         /\ net' = NetAfter(net, r, runs[r], next.run)
  /\ UNCHANGED <<loading, commonTopicsInput, reading, ingestMessage>>

\* lines 1103-1143: the handler resumes with the outcome of the final request
AfterAnalyzeAgg(run, tbls, outcome) ==
  LET got == Receive(run, outcome)
      analysisResult == MessageContent(run.request, outcome)
  IN  IF AnalyzeAggSucceeds(outcome)
      THEN [tables |-> SetTable(tbls, run.index,
                                AnalyzeSucceeded(analysisResult)),
            run |-> Finished(got, "success")]
      ELSE [tables |-> SetTable(tbls, run.index,
                                AnalyzeFailed(AggErrorMessage(outcome))),
            run |-> Finished(got, "error")]

\* the response to the final summary request arrives
analyzeAggResponse(r, outcome) ==
  /\ runs[r].kind = "analyze"
  /\ runs[r].pc = "aggWait"
  /\ InFlight(r, runs[r]) \in net
  /\ LET next == AfterAnalyzeAgg(runs[r], tables, outcome)
     IN  /\ tables' = next.tables
         /\ runs' = [runs EXCEPT ![r] = next.run]
         /\ net' = NetAfter(net, r, runs[r], next.run)
  /\ UNCHANGED <<loading, commonTopicsInput, reading, ingestMessage>>

-----------------------------------------------------------------------------
(* analyzeTopicWithDeepSeek and handleTopicsAnalysis (lines 1283-1586).    *)

\* the delimiters of line 1356: '、' ',' '，' and newline, written ; , | /
SEPARATORS == ";,|/"

\* String.prototype.split(/[、,，\n]/); cur is the piece being read
RECURSIVE SplitFrom(_, _)
SplitFrom(s, cur) ==
  IF s = "" THEN <<cur>>
  ELSE IF Includes(SEPARATORS, SubSeq(s, 1, 1))
       THEN <<cur>> \o SplitFrom(SubSeq(s, 2, Len(s)), "")
       ELSE SplitFrom(SubSeq(s, 2, Len(s)), cur \o SubSeq(s, 1, 1))

\* ParseTopics without the filter: blank entries stay in the list
ParseTopics_unfiltered(text) == SplitFrom(text, "")

\* commonTopicsInput.split(/[、,，\n]/).filter(topic => topic.trim())
ParseTopics(text) == SelectSeq(SplitFrom(text, ""), LAMBDA topic : Trim(topic) # "")

\* topics.join('、')
RECURSIVE Join(_)
Join(topics) ==
  IF topics = <<>> THEN ""
  ELSE IF Len(topics) = 1 THEN topics[1]
  ELSE topics[1] \o ";" \o Join(Tail(topics))

\* analyzeTopicWithDeepSeek answers without a request (lines 1286-1288)
AnswersWithoutRequest(content) == ~Truthy(content) \/ Trim(content) = ""

\* does analyzeTopicWithDeepSeek return the model's text (line 1332); every
\* other outcome makes it throw (lines 1336-1345)
RowSucceeds(outcome) == outcome = "ok"

\* Annotate storing the result one row early
Annotate_rowBefore(data, globalIndex, result) ==
  [i \in 1..Len(data) |-> IF i = globalIndex
                          THEN Put(data[i], COL_TOPIC, result)
                          ELSE data[i]]

\* const newData = [...t.data];
\* newData[globalIndex] = { ...newData[globalIndex], 共性内容分析: result };
\* writing past the end leaves holes in between
Annotate(data, globalIndex, result) ==
  LET n == IF globalIndex + 1 > Len(data) THEN globalIndex + 1 ELSE Len(data)
      old(i) == IF i <= Len(data) THEN data[i] ELSE Hole
  IN  [i \in 1..n |-> IF i = globalIndex + 1
                      THEN Put(old(i), COL_TOPIC, result)
                      ELSE old(i)]

\* setTables(prev => prev.map((t, i) => i === index ? { ...t, data: newData } : t))
\* (lines 1419-1426 and 1440-1447)
SetData(tbls, index, globalIndex, result) ==
  [i \in 1..Len(tbls) |->
     IF i = index + 1
     THEN Spread(tbls[i], [data |-> Annotate(tbls[i].data, globalIndex, result)])
     ELSE tbls[i]]

\* the state update of lines 1366-1374
TopicsStarted(topics) ==
  [isAnalyzingTopics |-> TRUE,
   commonTopics |-> topics,
   topicsApiStatus |-> "analyzing",
   topicsApiMessage |-> "running the topic analysis..."]

\* TopicsSucceeded without isAnalyzingTopics: false
TopicsSucceeded_flagKept(analysisResult) ==
  [topicsAnalysis |-> analysisResult,
   topicsApiStatus |-> "success",
   topicsApiMessage |-> "topic analysis done"]

\* the state update of lines 1558-1566
TopicsSucceeded(analysisResult) ==
  [isAnalyzingTopics |-> FALSE,
   topicsAnalysis |-> analysisResult,
   topicsApiStatus |-> "success",
   topicsApiMessage |-> "topic analysis done"]

\* TopicsFailed that also drops the topic list and the earlier summary
TopicsFailed_reset(errorMessage) ==
  [isAnalyzingTopics |-> FALSE,
   commonTopics |-> <<>>,
   topicsAnalysis |-> Undefined,
   topicsApiStatus |-> "error",
   topicsApiMessage |-> "analysis failed: " \o errorMessage]

\* the state update of lines 1575-1582
TopicsFailed(errorMessage) ==
  [isAnalyzingTopics |-> FALSE,
   topicsApiStatus |-> "error",
   topicsApiMessage |-> "analysis failed: " \o errorMessage]

\* does the final request of handleTopicsAnalysis reach line 1558
TopicsAggSucceeds(outcome) == outcome \notin {"http", "nochoices", "badjson", "neterr"}

TopicsAggErrorMessage(outcome) ==
  CASE outcome = "http" -> "API request failed: 500"
    [] outcome = "nochoices" -> "API returned malformed data"
    [] outcome = "badjson" -> "Unexpected token < in JSON"
    [] OTHER -> "Failed to fetch"

\* the rows the final request is built from (lines 1462-1463)
SummaryRows(run) == run.currentTable.data

\* analysisData (lines 1465-1469)
AnalysisData(run) ==
  LET columnName == run.columnName
      rows == SummaryRows(run)
  IN  [i \in 1..Len(rows) |->
         IF IsHole(rows[i]) THEN Hole
         ELSE [userInfo |-> UserInfo(rows[i]),
               content |-> RowContent(rows[i], columnName, run.currentTable.name),
               topic |-> Or(Get(rows[i], COL_TOPIC), "")]]

\* the state update of lines 1419-1436 for the row at (batchIndex, rowIndex):
\* the annotation, then the progress message on every PROGRESS_EVERY-th row
RowAnnotated(tbls, run, result) ==
  LET batches == run.batches
      globalIndex == run.batchIndex * BATCH_SIZE + run.rowIndex
      annotated == SetData(tbls, run.index, globalIndex, result)
  IN  IF (run.rowIndex + 1) % PROGRESS_EVERY = 0
      THEN SetTable(annotated, run.index, [topicsApiMessage |->
                "batch " \o ToString(run.batchIndex + 1) \o ": processed "
                  \o ToString(run.rowIndex + 1) \o "/"
                  \o ToString(Len(batches[run.batchIndex + 1])) \o " rows"])
      ELSE annotated

\* the state update of lines 1440-1447
RowFailed(tbls, run) ==
  LET globalIndex == run.batchIndex * BATCH_SIZE + run.rowIndex
  IN  SetData(tbls, run.index, globalIndex, MARK_FAILED)

\* From a position (batchIndex, rowIndex) of the loops of lines 1397-1451 to
\* the next await on the network: rows that need no request are handled on
\* the way; after the last batch the final request is sent.  atBatchStart
\* says that the batch's progress message (lines 1401-1406) is still to come.
RECURSIVE TopicsNext(_, _, _, _)
TopicsNext(r, run, tbls, atBatchStart) ==
  LET batches == run.batches
      columnName == run.columnName
  IN  IF run.batchIndex >= Len(batches)
      THEN \* lines 1454-1543
           [tables |-> SetTable(tbls, run.index, [topicsApiMessage |-> "rows done, summarizing..."]),
            run |-> Send([run EXCEPT !.pc = "aggWait"],
                         [kind |-> "agg", run |-> r, topics |-> run.topics,
                          analysisData |-> AnalysisData(run)])]
      ELSE IF atBatchStart
      THEN TopicsNext(r, [run EXCEPT !.rowIndex = 0],
                      SetTable(tbls, run.index, [topicsApiMessage |->
                           "processing batch " \o ToString(run.batchIndex + 1)
                             \o "/" \o ToString(Len(batches))]),
                      FALSE)
      ELSE IF run.rowIndex >= Len(batches[run.batchIndex + 1])
      THEN TopicsNext(r, [run EXCEPT !.batchIndex = @ + 1], tbls, TRUE)
      ELSE LET row == batches[run.batchIndex + 1][run.rowIndex + 1]
           IN  IF IsHole(row)
               THEN \* row[columnName] of undefined: TypeError, caught at 1571
                    [tables |-> SetTable(tbls, run.index, TopicsFailed("Cannot read properties of undefined")),
                     run |-> Finished(run, "error")]
               ELSE LET content == RowContent(row, columnName, run.currentTable.name)
                    IN  IF ~Truthy(content)                          \* line 1414
                        THEN TopicsNext(r, [run EXCEPT !.rowIndex = @ + 1], tbls, FALSE)
                        ELSE IF AnswersWithoutRequest(content)
                        THEN TopicsNext(r, [run EXCEPT !.rowIndex = @ + 1],
                                        RowAnnotated(tbls, run, MARK_EMPTY), FALSE)
                        ELSE [tables |-> tbls,
                              run |-> Send([run EXCEPT !.pc = "rowWait"],
                                           [kind |-> "row", run |-> r,
                                            at |-> run.batchIndex * BATCH_SIZE + run.rowIndex,
                                            content |-> content,
                                            topics |-> run.topics,
                                            columnName |-> columnName])]

\* handleTopicsAnalysis(index) up to its first await
handleTopicsAnalysis(index) ==
  /\ HasFreeRun
  /\ index \in 0..(Len(tables) - 1)
  /\ ~tables[index + 1].isAnalyzingTopics                 \* line 1354
  /\ Len(ParseTopics(commonTopicsInput)) # 0              \* lines 1357-1360
  /\ LET r == FreeRun
         topics == ParseTopics(commonTopicsInput)
         currentTable == tables[index + 1]
         batches == MakeBatches(currentTable.data, 0)
         started == SetTable(tables, index, TopicsStarted(topics))
         announced == SetTable(started, index, [topicsApiMessage |->
                           "batch processing starts, " \o ToString(Len(batches))
                             \o " batches of at most " \o ToString(BATCH_SIZE)])
         run == [kind |-> "topics", pc |-> "start", index |-> index,
                 currentTable |-> currentTable, topics |-> topics,
                 rows |-> Len(currentTable.data), batches |-> batches,
                 columnName |-> ExtractColumnName(currentTable.name),
                 batchIndex |-> 0, rowIndex |-> 0, batchResults |-> <<>>,
                 request |-> NoRequest, sent |-> <<>>, failed |-> {},
                 result |-> "none"]
         next == TopicsNext(r, run, announced, TRUE)
     IN  /\ tables' = next.tables
         /\ runs' = [runs EXCEPT ![r] = next.run]
         /\ net' = NetAfter(net, r, run, next.run)
  /\ UNCHANGED <<loading, commonTopicsInput, reading, ingestMessage>>

\* the "upload and analyse" button (lines 1726-1730)
TopicsButtonEnabled(index) ==
  /\ index \in 0..(Len(tables) - 1)
  /\ ~(tables[index + 1].isAnalyzingTopics \/ Trim(commonTopicsInput) = "")

clickTopicsAnalysis(index) == TopicsButtonEnabled(index) /\ handleTopicsAnalysis(index)

\* AfterRowResponse without the try/catch around a row (lines 1416 and
\* 1438-1448): the error of a row reaches the handler's catch of line 1571
AfterRowResponse_noInnerCatch(r, run, tbls, outcome) ==
  LET got == Receive(run, outcome)
  IN  IF RowSucceeds(outcome)
      THEN TopicsNext(r, [got EXCEPT !.rowIndex = @ + 1],
                      RowAnnotated(tbls, run, MessageContent(run.request, outcome)),
                      FALSE)
      ELSE [tables |-> SetTable(tbls, run.index, TopicsFailed("analysis failed")),
            run |-> Finished(got, "error")]

\* AfterRowResponse without the setTables calls of lines 1419-1426 and
\* 1440-1447: the loop goes on to the next row with the result unrecorded
AfterRowResponse_unrecorded(r, run, tbls, outcome) ==
  TopicsNext(r, [Receive(run, outcome) EXCEPT !.rowIndex = @ + 1], tbls, FALSE)

\* lines 1416-1448 and the loops' next iterations: the handler resumes with
\* the outcome of a row's request and runs up to its next await
AfterRowResponse(r, run, tbls, outcome) ==
  LET got == Receive(run, outcome)
      updated == IF RowSucceeds(outcome)
                 THEN RowAnnotated(tbls, run, MessageContent(run.request, outcome))
                 ELSE RowFailed(tbls, run)
  IN  TopicsNext(r, [got EXCEPT !.rowIndex = @ + 1], updated, FALSE)

\* the response to a row's request arrives
topicsRowResponse(r, outcome) ==
  /\ runs[r].kind = "topics"
  /\ runs[r].pc = "rowWait"
  /\ InFlight(r, runs[r]) \in net
  /\ LET next == AfterRowResponse(r, runs[r], tables, outcome)
     IN  /\ tables' = next.tables
         /\ runs' = [runs EXCEPT ![r] = next.run]
         /\ net' = NetAfter(net, r, runs[r], next.run)
  /\ UNCHANGED <<loading, commonTopicsInput, reading, ingestMessage>>

\* lines 1545-1585: the handler resumes with the outcome of the final request
AfterTopicsAgg(run, tbls, outcome) ==
  LET got == Receive(run, outcome)
      analysisResult == MessageContent(run.request, outcome)
  IN  IF TopicsAggSucceeds(outcome)
      THEN [tables |-> SetTable(tbls, run.index,
                                TopicsSucceeded(analysisResult)),
            run |-> Finished(got, "success")]
      ELSE [tables |-> SetTable(tbls, run.index,
                                TopicsFailed(TopicsAggErrorMessage(outcome))),
            run |-> Finished(got, "error")]

\* the response to the final request arrives
topicsAggResponse(r, outcome) ==
  /\ runs[r].kind = "topics"
  /\ runs[r].pc = "aggWait"
  /\ InFlight(r, runs[r]) \in net
  /\ LET next == AfterTopicsAgg(runs[r], tables, outcome)
     IN  /\ tables' = next.tables
         /\ runs' = [runs EXCEPT ![r] = next.run]
         /\ net' = NetAfter(net, r, runs[r], next.run)
         \* setCommonTopicsInput('') after message.success (line 1569)
         /\ commonTopicsInput' = IF next.run.result = "success" THEN ""
                                 ELSE commonTopicsInput
  /\ UNCHANGED <<loading, reading, ingestMessage>>

-----------------------------------------------------------------------------
Init ==
  /\ loading = FALSE
  /\ tables = <<>>
  /\ commonTopicsInput = ""
  /\ reading = NoFile
  /\ ingestMessage = MSG_NONE
  /\ runs = [r \in RunIds |-> NoRun]
  /\ net = {}

\* the number of handler invocations so far
RunsStarted == Cardinality({r \in RunIds : runs[r].kind # "none"})

\* The component with at most SoloRuns handler invocations, every file and
\* every outcome of every request.
Next ==
  \/ \E file \in Files : handleUpload(file)
  \/ readerOnLoad
  \/ \E text \in TopicTexts : setCommonTopicsInput(text)
  \/ \E index \in 0..1 : RunsStarted < SoloRuns /\ clickAnalyze(index)
  \/ \E r \in RunIds, outcome \in Outcomes : analyzeBatchResponse(r, outcome)
  \/ \E r \in RunIds, outcome \in Outcomes : analyzeAggResponse(r, outcome)
  \/ \E index \in 0..1 : RunsStarted < SoloRuns /\ clickTopicsAnalysis(index)
  \/ \E r \in RunIds, outcome \in Outcomes : topicsRowResponse(r, outcome)
  \/ \E r \in RunIds, outcome \in Outcomes : topicsAggResponse(r, outcome)

Spec == Init /\ [][Next]_vars

\* The overall analysis on its own: the workbooks FileA and FileB, at most SoloRuns
\* invocations of handleAnalyze, every outcome of every request.
NextAnalyze ==
  \/ \E file \in {FileA, FileB} : handleUpload(file)
  \/ readerOnLoad
  \/ \E index \in 0..1 : RunsStarted < SoloRuns /\ clickAnalyze(index)
  \/ \E r \in RunIds, outcome \in Outcomes : analyzeBatchResponse(r, outcome)
  \/ \E r \in RunIds, outcome \in Outcomes : analyzeAggResponse(r, outcome)

SpecAnalyze == Init /\ [][NextAnalyze]_vars

\* Up to MaxRuns overlapping handler invocations make the state space of the
\* whole component too large to enumerate, so two scenarios are explored with
\* MaxRuns invocations: overall analyses only, and topic analyses only, with
\* the backend's behaviour drawn from DuoOutcomes and the files from DuoFiles.
DuoOutcomes == {"ok", "empty", "http"}

DuoFiles == {FileA, FileB}

DuoRowOutcomes == {"ok"}

DuoAggOutcomes == {"ok", "http"}

DuoTexts == {"quality; ;service"}

NextAnalyzeDuo ==
  \/ \E file \in DuoFiles : handleUpload(file)
  \/ readerOnLoad
  \/ \E index \in 0..1 : clickAnalyze(index)
  \/ \E r \in RunIds, outcome \in DuoOutcomes : analyzeBatchResponse(r, outcome)
  \/ \E r \in RunIds, outcome \in DuoOutcomes : analyzeAggResponse(r, outcome)

SpecAnalyzeDuo == Init /\ [][NextAnalyzeDuo]_vars

NextTopicsDuo ==
  \/ \E file \in DuoFiles : handleUpload(file)
  \/ readerOnLoad
  \/ \E text \in DuoTexts : setCommonTopicsInput(text)
  \/ \E index \in 0..1 : clickTopicsAnalysis(index)
  \/ \E r \in RunIds, outcome \in DuoRowOutcomes : topicsRowResponse(r, outcome)
  \/ \E r \in RunIds, outcome \in DuoAggOutcomes : topicsAggResponse(r, outcome)

SpecTopicsDuo == Init /\ [][NextTopicsDuo]_vars

\* has a handler of the given kind been invoked
Started(kind) == \E r \in RunIds : runs[r].kind = kind

\* One overall analysis and one topic analysis, on any datasets and in any
\* interleaving, with the files of DuoFiles and the backend's behaviour of
\* the two-run scenarios.
NextPair ==
  \/ \E file \in DuoFiles : handleUpload(file)
  \/ readerOnLoad
  \/ \E text \in DuoTexts : setCommonTopicsInput(text)
  \/ \E index \in 0..1 : ~Started("analyze") /\ clickAnalyze(index)
  \/ \E r \in RunIds, outcome \in DuoOutcomes : analyzeBatchResponse(r, outcome)
  \/ \E r \in RunIds, outcome \in DuoAggOutcomes : analyzeAggResponse(r, outcome)
  \/ \E index \in 0..1 : ~Started("topics") /\ clickTopicsAnalysis(index)
  \/ \E r \in RunIds, outcome \in DuoRowOutcomes : topicsRowResponse(r, outcome)
  \/ \E r \in RunIds, outcome \in DuoAggOutcomes : topicsAggResponse(r, outcome)

SpecPair == Init /\ [][NextPair]_vars

\* A workbook of DuoFiles has been ingested.
InitLoaded ==
  /\ loading = FALSE
  /\ tables \in {BuildTables(file.rows, file.header) : file \in DuoFiles}
  /\ commonTopicsInput = ""
  /\ reading = NoFile
  /\ ingestMessage = MsgLoaded(Len(tables))
  /\ runs = [r \in RunIds |-> NoRun]
  /\ net = {}

\* a request is answered, or fails
RespondLoaded ==
  \/ \E r \in RunIds, outcome \in DuoOutcomes : analyzeBatchResponse(r, outcome)
  \/ \E r \in RunIds, outcome \in DuoAggOutcomes : analyzeAggResponse(r, outcome)
  \/ \E r \in RunIds, outcome \in DuoRowOutcomes : topicsRowResponse(r, outcome)
  \/ \E r \in RunIds, outcome \in DuoAggOutcomes : topicsAggResponse(r, outcome)

\* One overall analysis and one topic analysis on the datasets of one
\* workbook, no other workbook being uploaded meanwhile.
NextLoaded ==
  \/ \E text \in DuoTexts : setCommonTopicsInput(text)
  \/ \E index \in 0..1 : ~Started("analyze") /\ clickAnalyze(index)
  \/ \E index \in 0..1 : ~Started("topics") /\ clickTopicsAnalysis(index)
  \/ RespondLoaded

\* every fetch settles: the promise is resolved with a response or rejected
SpecLoaded == InitLoaded /\ [][NextLoaded]_vars /\ WF_vars(RespondLoaded)

\* Up to MaxRuns runs of either kind on the datasets of one workbook, no
\* other workbook being uploaded meanwhile; a request succeeds or fails.
NextLoadedDuo ==
  \/ \E text \in DuoTexts : setCommonTopicsInput(text)
  \/ \E index \in 0..1 : clickAnalyze(index)
  \/ \E index \in 0..1 : clickTopicsAnalysis(index)
  \/ \E r \in RunIds, outcome \in DuoAggOutcomes : analyzeBatchResponse(r, outcome)
  \/ \E r \in RunIds, outcome \in DuoAggOutcomes : analyzeAggResponse(r, outcome)
  \/ \E r \in RunIds, outcome \in DuoAggOutcomes : topicsRowResponse(r, outcome)
  \/ \E r \in RunIds, outcome \in DuoAggOutcomes : topicsAggResponse(r, outcome)

SpecLoadedDuo == InitLoaded /\ [][NextLoadedDuo]_vars

\* the datasets of the list come from the given workbook
FromFile(file) ==
  /\ tables # <<>>
  /\ \A k \in 1..Len(tables) : tables[k].columns = Slice(file.header, 0, 3) \o <<tables[k].columns[4]>>

\* A second workbook is ingested over the first: FileA is uploaded into the
\* empty component and FileB once over the datasets of FileA, with up to
\* MaxRuns runs of either kind started at any time; a request succeeds or
\* fails.
NextReingest ==
  \/ tables = <<>> /\ handleUpload(FileA)
  \/ FromFile(FileA) /\ handleUpload(FileB)
  \/ readerOnLoad
  \/ \E text \in DuoTexts : setCommonTopicsInput(text)
  \/ \E index \in 0..1 : clickAnalyze(index)
  \/ \E index \in 0..1 : clickTopicsAnalysis(index)
  \/ \E r \in RunIds, outcome \in DuoAggOutcomes : analyzeBatchResponse(r, outcome)
  \/ \E r \in RunIds, outcome \in DuoAggOutcomes : analyzeAggResponse(r, outcome)
  \/ \E r \in RunIds, outcome \in DuoAggOutcomes : topicsRowResponse(r, outcome)
  \/ \E r \in RunIds, outcome \in DuoAggOutcomes : topicsAggResponse(r, outcome)

SpecReingest == Init /\ [][NextReingest]_vars

-----------------------------------------------------------------------------
(* Properties of the overall analysis (handleAnalyze).                     *)

\* the entry of a batch / of a row in a run's log of requests
BatchTag(k) == "batch" \o ToString(k)

RowTag(i) == "row" \o ToString(i)

Range(s) == {s[i] : i \in DOMAIN s}

\* ceil(n / d)
CeilDiv(n, d) == (n + d - 1) \div d

\* the requests of an analysis of n rows: one per batch, then the final one
ExpectedSent(n) ==
  [k \in 1..CeilDiv(n, BATCH_SIZE) |-> BatchTag(k - 1)] \o <<"agg">>

\* the step in which the handler invocation r of the given kind returns
Returns(r, kind) ==
  /\ runs'[r].kind = kind
  /\ runs[r].pc # "done"
  /\ runs'[r].pc = "done"

\* the dataset the invocation r writes to exists after the step
Targets(r) == runs'[r].index < Len(tables')

\* C1: whatever batches the backend fails, an analysis whose final request
\* is answered has requested every batch and returns with message.success,
\* leaving its dataset with analysisApiStatus 'success', isAnalyzing false
\* and analysis set.
C1_PartialFailureTolerated ==
  [][\A r \in RunIds :
       (Returns(r, "analyze") /\ "agg" \notin runs'[r].failed)
       => /\ runs'[r].result = "success"
          /\ \A k \in 0..(CeilDiv(runs'[r].rows, BATCH_SIZE) - 1) :
               BatchTag(k) \in Range(runs'[r].sent)
          /\ Targets(r) =>
               LET t == tables'[runs'[r].index + 1]
               IN  /\ t.analysisApiStatus = "success"
                   /\ ~t.isAnalyzing
                   /\ t.analysis # Undefined]_vars

\* an analysis of two batches whose first batch failed and whose second did
\* not has returned with success
C1_Witness ==
  \E r \in RunIds :
    /\ runs[r].kind = "analyze"
    /\ runs[r].pc = "done"
    /\ runs[r].failed = {BatchTag(0)}
    /\ runs[r].sent = <<BatchTag(0), BatchTag(1), "agg">>
    /\ runs[r].result = "success"
    /\ runs[r].index < Len(tables)
    /\ tables[runs[r].index + 1].analysisApiStatus = "success"
    /\ ~tables[runs[r].index + 1].isAnalyzing
    /\ Truthy(tables[runs[r].index + 1].analysis)

\* what entry k of batchResults may be: the model's text for batch k, the
\* empty text, or the placeholder of batch k
BatchOutputs(k) ==
  {ReplyContent([kind |-> "batch", at |-> k - 1]), ""}
    \cup {BatchPlaceholder(k - 1, outcome) : outcome \in BadOutcomes}

\* C2: the batchResults handed to the final request have exactly one entry
\* per batch, entry k being the output or the placeholder of batch k,
\* whatever the outcome of each batch request was.
C2_OneEntryPerBatch ==
  \A r \in RunIds :
    (runs[r].kind = "analyze" /\ runs[r].pc = "aggWait")
    => LET results == runs[r].request.results
       IN  /\ Len(results) = Len(runs[r].batches)
           /\ \A k \in 1..Len(results) : results[k] \in BatchOutputs(k)

\* C3: an analysis whose final request fails (transport, status, or a body
\* without choices, message or content) returns with message.error, leaving
\* its dataset with analysisApiStatus 'error', isAnalyzing false and the
\* analysis it had.
C3_AggregationFailureFails ==
  [][\A r \in RunIds :
       (Returns(r, "analyze") /\ "agg" \in runs'[r].failed)
       => /\ runs'[r].result = "error"
          /\ Targets(r) =>
               LET t == tables'[runs'[r].index + 1]
               IN  /\ t.analysisApiStatus = "error"
                   /\ ~t.isAnalyzing
                   /\ t.analysis = tables[runs'[r].index + 1].analysis]_vars

\* an analysis whose batches all succeeded and whose final request failed has
\* returned with an error, its dataset without analysis
C3_Witness ==
  \E r \in RunIds :
    /\ runs[r].kind = "analyze"
    /\ runs[r].pc = "done"
    /\ runs[r].failed = {"agg"}
    /\ Len(runs[r].sent) = 3
    /\ runs[r].result = "error"
    /\ runs[r].index < Len(tables)
    /\ tables[runs[r].index + 1].analysisApiStatus = "error"
    /\ ~tables[runs[r].index + 1].isAnalyzing
    /\ tables[runs[r].index + 1].analysis = Undefined

\* C4: handleAnalyze on a dataset whose analysis is set does nothing: no
\* step of the component is an invocation of it that goes on to a request.
C4_NoRunOnAnalyzed ==
  [][\A index \in 0..(Len(tables) - 1) :
       tables[index + 1].analysis # Undefined => ~handleAnalyze(index)]_vars

\* C5: an analysis of n rows sends the requests of batches 0 .. ceil(n/B)-1,
\* each once and in this order, then the final request, whatever failed.
C5_RequestAccounting ==
  \A r \in RunIds :
    runs[r].kind = "analyze"
    => LET expected == ExpectedSent(runs[r].rows)
       IN  IF runs[r].pc = "batchWait"
           THEN /\ runs[r].batchIndex + 1 < Len(expected)
                /\ runs[r].sent = SubSeq(expected, 1, runs[r].batchIndex + 1)
           ELSE runs[r].sent = expected

\* an analysis of 3 rows, a number BATCH_SIZE does not divide, has failed
\* in every batch and has still sent the final request
C5_Witness ==
  \E r \in RunIds :
    /\ runs[r].kind = "analyze"
    /\ runs[r].pc \in {"aggWait", "done"}
    /\ runs[r].rows = 3
    /\ runs[r].rows % BATCH_SIZE # 0
    /\ \A k \in 0..(CeilDiv(runs[r].rows, BATCH_SIZE) - 1) : BatchTag(k) \in runs[r].failed
    /\ runs[r].sent[Len(runs[r].sent)] = "agg"

\* the requests of invocation r that are in flight
InFlightOf(r) == {m \in net : m.run = r}

\* at most one request of an analysis is in flight, and it is the one sent
\* last: every earlier request has completed; nothing follows the final one
Sequential(r) ==
  /\ Cardinality(InFlightOf(r)) <= 1
  /\ \A m \in InFlightOf(r) : m.n = Len(runs[r].sent)
  /\ \A k \in 1..Len(runs[r].sent) :
       /\ runs[r].sent[k] = "agg" => k = Len(runs[r].sent)
       /\ runs[r].sent[k] # "agg" => runs[r].sent[k] = BatchTag(k - 1)

\* a step that sets the analysis of dataset i is the completion, without
\* failure, of the final request of an analysis of dataset i
SetByAnsweredFinalRequest(i) ==
  \E r \in RunIds :
    /\ runs[r].kind = "analyze"
    /\ runs[r].pc = "aggWait"
    /\ runs[r].index = i - 1
    /\ InFlight(r, runs[r]) \in net
    /\ InFlight(r, runs[r]) \notin net'
    /\ runs'[r].pc = "done"
    /\ runs'[r].result = "success"
    /\ "agg" \notin runs'[r].failed

\* C6: the requests of an analysis are strictly sequential: at most one is
\* in flight, the request of batch k+1 is sent only when that of batch k has
\* completed, the final request only when the last batch has completed, and
\* analysis is set only when the final request has succeeded.
C6_StrictlySequential ==
  /\ [](\A r \in RunIds : runs[r].kind = "analyze" => Sequential(r))
  /\ [][\A i \in 1..Len(tables') :
          (/\ tables'[i].analysis # Undefined
           /\ (i > Len(tables) \/ tables'[i].analysis # tables[i].analysis))
          => SetByAnsweredFinalRequest(i)]_vars

\* an analysis has sent its last batch request, which is the only request
\* of it in flight, after the earlier batch has failed
C6_Witness ==
  \E r \in RunIds :
    /\ runs[r].kind = "analyze"
    /\ runs[r].pc = "batchWait"
    /\ runs[r].sent = <<BatchTag(0), BatchTag(1)>>
    /\ BatchTag(0) \in runs[r].failed
    /\ InFlightOf(r) = {[run |-> r, n |-> 2]}

-----------------------------------------------------------------------------
(* Properties of the topic analysis (handleTopicsAnalysis).                *)

HasHole(data) == \E i \in 1..Len(data) : IsHole(data[i])

\* the text of row i (from 1) of the rows an invocation works on
TextOf(run, i) ==
  RowContent(run.currentTable.data[i], run.columnName, run.currentTable.name)

\* empty or whitespace-only
IsBlank(text) == text = Undefined \/ Trim(text) = ""

\* the annotation of row i (from 1) of a dataset, if the row is there
AnnotationOf(t, i) ==
  IF i <= Len(t.data) /\ ~IsHole(t.data[i]) THEN Get(t.data[i], COL_TOPIC)
  ELSE Undefined

\* C7: when the request of a row fails (transport, status, a malformed or an
\* empty reply) the row is annotated with the failure marker and the
\* invocation goes on to the later rows and to the final request; once the
\* rows are done, every row with text has been requested.
C7_RowFailureTolerated ==
  /\ [](\A r \in RunIds :
          (runs[r].kind = "topics" /\ runs[r].pc = "aggWait")
          => \A i \in 1..Len(runs[r].currentTable.data) :
               ~IsBlank(TextOf(runs[r], i)) => RowTag(i - 1) \in Range(runs[r].sent))
  /\ [][\A r \in RunIds, outcome \in Outcomes \ {"ok"} :
          topicsRowResponse(r, outcome)
          => /\ Targets(r) =>
                  AnnotationOf(tables'[runs[r].index + 1], runs[r].request.at + 1)
                    = MARK_FAILED
             /\ \/ runs'[r].pc \in {"rowWait", "aggWait"}
                \/ HasHole(runs[r].currentTable.data)]_vars

\* a topic analysis whose first row failed has gone through the later rows:
\* it has returned with success and the failed row carries the marker
C7_Witness ==
  \E r \in RunIds :
    /\ runs[r].kind = "topics"
    /\ runs[r].pc = "done"
    /\ runs[r].failed = {RowTag(0)}
    /\ Len(runs[r].sent) >= 3
    /\ runs[r].result = "success"
    /\ runs[r].index < Len(tables)
    /\ AnnotationOf(tables[runs[r].index + 1], 1) = MARK_FAILED

\* what the annotation of a requested row can be after the request
RowResults(i) == {ReplyContent([kind |-> "row", at |-> i - 1]), MARK_FAILED}

\* C8: the final request of a topic analysis carries, for every row the
\* invocation has requested, the annotation this invocation produced for it.
C8_FinalRequestCarriesAnnotations ==
  \A r \in RunIds :
    (runs[r].kind = "topics" /\ runs[r].pc = "aggWait")
    => LET analysisData == runs[r].request.analysisData
       IN  \A i \in 1..Len(analysisData) :
             (~IsHole(analysisData[i]) /\ RowTag(i - 1) \in Range(runs[r].sent))
             => analysisData[i].topic \in RowResults(i)

\* C9: a topic analysis whose final request fails (transport, status, or a
\* body without choices, message or content) returns with message.error,
\* leaving its dataset with topicsApiStatus 'error' and isAnalyzingTopics
\* false.
C9_TopicsAggregationFailureFails ==
  [][\A r \in RunIds :
       (Returns(r, "topics") /\ "agg" \in runs'[r].failed)
       => /\ runs'[r].result = "error"
          /\ Targets(r) =>
               LET t == tables'[runs'[r].index + 1]
               IN  /\ t.topicsApiStatus = "error"
                   /\ ~t.isAnalyzingTopics]_vars

\* C10: a topic analysis passes over a row without a request exactly when
\* the row's text is blank, and then the row is annotated with the
\* empty-content marker; a row with text is requested (once: the invocation
\* never goes back).
C10_BlankRowsMarked ==
  [][\A r \in RunIds :
       (/\ runs'[r].kind = "topics"
        /\ runs'[r] # runs[r]
        /\ runs'[r].pc \in {"rowWait", "aggWait"})
       => LET run == runs'[r]
              first == IF runs[r].kind = "none" THEN 1 ELSE runs[r].request.at + 2
              next == IF run.pc = "rowWait" THEN run.request.at + 1
                      ELSE Len(run.currentTable.data) + 1
          IN  /\ \A i \in first..(next - 1) :
                   /\ IsBlank(TextOf(run, i))
                   /\ Targets(r) =>
                        AnnotationOf(tables'[run.index + 1], i) = MARK_EMPTY
              /\ run.pc = "rowWait" => ~IsBlank(TextOf(run, next))]_vars

-----------------------------------------------------------------------------
(* Order of the requests of a topic analysis.                              *)

\* the rows a log of requests names are in increasing order, and nothing
\* follows the final request
InRowOrder(sent, n) ==
  \A k \in 1..Len(sent) :
    /\ sent[k] = "agg" => k = Len(sent)
    /\ sent[k] # "agg" =>
         \E i \in 0..(n - 1) :
           /\ sent[k] = RowTag(i)
           /\ \A l \in 1..(k - 1) : \E j \in 0..(i - 1) : sent[l] = RowTag(j)

\* C11: the requests of a topic analysis are strictly sequential and in row
\* order: at most one is in flight and it is the one sent last, the rows are
\* requested in increasing order with the final request after them, and when
\* the handler moves on from a row's request (to the next row's request or to
\* the final one) the row's result has been written to the dataset.
C11_RowsStrictlySequential ==
  /\ [](\A r \in RunIds :
          runs[r].kind = "topics"
          => /\ Cardinality(InFlightOf(r)) <= 1
             /\ \A m \in InFlightOf(r) : m.n = Len(runs[r].sent)
             /\ InRowOrder(runs[r].sent, runs[r].rows))
  /\ [][\A r \in RunIds :
          (/\ runs[r].kind = "topics"
           /\ runs[r].pc = "rowWait"
           /\ runs'[r] # runs[r]
           /\ Targets(r))
          => AnnotationOf(tables'[runs[r].index + 1], runs[r].request.at + 1)
               \in RowResults(runs[r].request.at + 1)]_vars

\* a topic analysis waits for its third request, the only one of it in
\* flight, with the results of the two earlier ones in the dataset
C11_Witness ==
  \E r \in RunIds :
    /\ runs[r].kind = "topics"
    /\ runs[r].pc = "rowWait"
    /\ Len(runs[r].sent) = 3
    /\ InFlightOf(r) = {[run |-> r, n |-> 3]}
    /\ runs[r].index < Len(tables)
    /\ \A k \in 1..2 :
         \E i \in 1..runs[r].rows :
           /\ runs[r].sent[k] = RowTag(i - 1)
           /\ AnnotationOf(tables[runs[r].index + 1], i) \in RowResults(i)

-----------------------------------------------------------------------------
(* Ingestion of generated workbooks: the column selector and the row       *)
(* projector applied to every workbook of a family.                         *)

\* the number of data rows of a generated workbook
SheetRows == 3

\* the header of a generated workbook: three identity columns, a column that
\* is always admitted, and the column under test
GenHeader(name) == <<"uid", "dept", "grade", "Q0_text", name>>

\* the names of the column under test: with 'text' in several cases, with
\* '分列', and without a marker
GenNames == {"Q1_text", "TEXTAREA", "ConTexT", "Q3fenlie", "Q2_single_choice", "tex_t"}

\* the cell values of the column under test
GenValues == {"", SENTINEL, " ", "a", " a ", "b", "c"}

GenCells == [1..SheetRows -> GenValues]

GenFile(name, cells) ==
  [ext |-> "xlsx", readable |-> TRUE, header |-> GenHeader(name),
   rows |-> [i \in 1..SheetRows |->
               SheetRow(GenHeader(name),
                        <<"u" \o ToString(i), IF i = 2 THEN "" ELSE "d1", "g",
                          "x" \o ToString(i), cells[i]>>)]]

GenFiles == {GenFile(name, cells) : name \in GenNames, cells \in GenCells}

\* processExcelFile has been called for a generated workbook
InitIngest ==
  /\ loading = TRUE
  /\ tables = <<>>
  /\ commonTopicsInput = ""
  /\ reading \in GenFiles
  /\ ingestMessage = MSG_NONE
  /\ runs = [r \in RunIds |-> NoRun]
  /\ net = {}

NextIngest == readerOnLoad

SpecIngest == InitIngest /\ [][NextIngest]_vars

\* the column a dataset was built for: the last of its columns
TargetOf(t) == t.columns[Len(t.columns)]

\* the values of column c in the sheet being read
CellsOf(c) == [i \in 1..Len(reading.rows) |-> reading.rows[i][c]]

\* c contains 'text' in any case, or '分列'
HasMarker(c) ==
  \/ \E i \in 1..(Len(c) - 3) : ToLowerCase(SubSeq(c, i, i + 3)) = "text"
  \/ \E i \in 1..(Len(c) - Len(MARKER_FENLIE) + 1) :
       SubSeq(c, i, i + Len(MARKER_FENLIE) - 1) = MARKER_FENLIE

\* the distinct trimmed non-empty values among the cells that are neither
\* empty nor the sentinel
DistinctValues(cells) ==
  {Trim(cells[i]) : i \in {j \in 1..Len(cells) : cells[j] \notin {"", SENTINEL}}} \ {""}

\* C12: a column after the first three gets a dataset iff its name has a
\* marker and its cells hold at least UNIQUE_THRESHOLD (10 in the source)
\* distinct trimmed non-empty values, the empty and the sentinel cells set
\* aside.
C12_ColumnAdmission ==
  [][(readerOnLoad /\ reading.readable /\ Len(reading.rows) > 0)
     => \A k \in 4..Len(reading.header) :
          LET c == reading.header[k]
          IN  (\E i \in 1..Len(tables') : TargetOf(tables'[i]) = c)
              <=> (/\ HasMarker(c)
                   /\ Cardinality(DistinctValues(CellsOf(c))) >= UNIQUE_THRESHOLD)]_vars

\* a column named with 'TEXT' in capitals and holding exactly
\* UNIQUE_THRESHOLD distinct values, one of them twice up to spaces, has
\* been given a dataset
C12_Witness ==
  /\ reading = NoFile
  /\ \E i \in 1..Len(tables) :
       /\ TargetOf(tables[i]) = "TEXTAREA"
       /\ Len(tables[i].data) = 3
       /\ Cardinality({Trim(tables[i].data[j]["TEXTAREA"]) : j \in 1..3})
            = UNIQUE_THRESHOLD

\* the source rows whose value in column c is neither empty nor the sentinel
KeptSource(c) ==
  {i \in 1..Len(reading.rows) : reading.rows[i][c] \notin {"", SENTINEL}}

\* the j-th of them in source order
NthKept(c, j) ==
  CHOOSE i \in KeptSource(c) : Cardinality({k \in KeptSource(c) : k < i}) = j - 1

\* the sheet being read is turned into datasets by this step
Ingests ==
  /\ reading.readable /\ Len(reading.rows) > 0
  /\ reading' = NoFile
  /\ readerOnLoad

\* C13: the rows of a dataset are exactly the source rows whose target value
\* is neither empty nor the sentinel, and as many.
C13_ProjectionFilter ==
  [][Ingests
     => \A n \in 1..Len(tables') :
          LET t == tables'[n]
              c == TargetOf(t)
          IN  /\ {t.data[j]["uid"] : j \in 1..Len(t.data)}
                   = {reading.rows[i]["uid"] : i \in KeptSource(c)}
              /\ Len(t.data) = Cardinality(KeptSource(c))]_vars

\* one sheet has given a dataset of all its rows and a dataset that lost a
\* row
C13_Witness ==
  /\ reading = NoFile
  /\ Len(tables) = 2
  /\ Len(tables[1].data) = SheetRows
  /\ Len(tables[2].data) = SheetRows - 1

\* C14: the j-th row of a dataset comes from the j-th kept source row, has
\* the key j - 1, that row's identity values and that row's target value as
\* it is in the sheet, and nothing else.
C14_ProjectionContent ==
  [][Ingests
     => \A n \in 1..Len(tables') :
          LET t == tables'[n]
              c == TargetOf(t)
              ident == {reading.header[k] : k \in 1..3}
          IN  /\ Len(t.data) = Cardinality(KeptSource(c))
              /\ \A j \in 1..Len(t.data) :
                   LET src == reading.rows[NthKept(c, j)]
                   IN  /\ DOMAIN t.data[j] = {"key"} \cup ident \cup {c}
                       /\ t.data[j]["key"] = ToString(j - 1)
                       /\ \A col \in ident : t.data[j][col] = src[col]
                       /\ t.data[j][c] = src[c]]_vars

\* the second row of a sheet, with an empty identity cell and a target value
\* in spaces, is the first row of a dataset
C14_Witness ==
  /\ reading = NoFile
  /\ \E n \in 1..Len(tables) :
       /\ Len(tables[n].data) = 2
       /\ tables[n].data[1]["key"] = "0"
       /\ tables[n].data[1]["uid"] = "u2"
       /\ tables[n].data[1]["dept"] = ""
       /\ tables[n].data[1][TargetOf(tables[n])] = " a "

-----------------------------------------------------------------------------
(* Properties of the batcher.                                              *)

RECURSIVE Flatten(_)
\* the concatenation of a sequence of sequences
Flatten(chunks) ==
  IF chunks = <<>> THEN <<>> ELSE Head(chunks) \o Flatten(Tail(chunks))

\* chunks cut data into pieces of BATCH_SIZE, the last one possibly shorter
IsPartition(data, chunks) ==
  /\ Flatten(chunks) = data
  /\ Len(chunks) = CeilDiv(Len(data), BATCH_SIZE)
  /\ \A k \in 1..Len(chunks) :
       /\ Len(chunks[k]) >= 1
       /\ k < Len(chunks) => Len(chunks[k]) = BATCH_SIZE
  /\ data = <<>> => chunks = <<>>

\* C15: the batches of an analysis and of a topic analysis, put end to end,
\* are the rows of the dataset; there are ceil(n / BATCH_SIZE) of them, none
\* is empty and all but the last have BATCH_SIZE rows; the same holds of the
\* batches of every prefix of the rows, the empty one included, which has no
\* batch.
C15_BatchesPartitionRows ==
  \A r \in RunIds :
    runs[r].pc \in {"batchWait", "rowWait", "aggWait"}
    => LET data == runs[r].currentTable.data
       IN  /\ IsPartition(data, runs[r].batches)
           /\ \A m \in 0..Len(data) :
                IsPartition(SubSeq(data, 1, m), MakeBatches(SubSeq(data, 1, m), 0))

\* an analysis and a topic analysis are under way on 3 rows, which make a
\* full batch and a shorter one
C15_Witness ==
  \E r, q \in RunIds :
    /\ runs[r].kind = "analyze" /\ runs[r].pc = "batchWait"
    /\ runs[q].kind = "topics" /\ runs[q].pc = "rowWait"
    /\ Len(runs[r].batches) = 2 /\ Len(runs[q].batches) = 2
    /\ Len(runs[r].batches[2]) = 1 /\ Len(runs[q].batches[2]) = 1
    /\ Len(runs[r].batches[1]) = BATCH_SIZE

-----------------------------------------------------------------------------
(* The overall analysis and the topic analysis on one dataset.             *)

\* the fields of a dataset the overall analysis writes
AnalysisFields == {"isAnalyzing", "analysis", "analysisApiStatus", "analysisApiMessage"}

\* the fields of a dataset the topic analysis writes
TopicsFields ==
  {"isAnalyzingTopics", "commonTopics", "topicsAnalysis", "topicsApiStatus",
   "topicsApiMessage", "data"}

\* the step is one of a handler invocation of the given kind
StepOf(kind) == \E r \in RunIds : runs'[r] # runs[r] /\ runs'[r].kind = kind

\* the given fields of every dataset are as before the step
Keeps(fields) ==
  /\ Len(tables') = Len(tables)
  /\ \A i \in 1..Len(tables), f \in fields : tables'[i][f] = tables[i][f]

\* an overall analysis and a topic analysis of the same dataset have both
\* returned with message.success
BothSucceeded(r, q) ==
  /\ runs[r].kind = "analyze" /\ runs[r].pc = "done" /\ runs[r].result = "success"
  /\ runs[q].kind = "topics" /\ runs[q].pc = "done" /\ runs[q].result = "success"
  /\ runs[r].index = runs[q].index

\* C16: an overall analysis and a topic analysis started on the datasets of
\* a workbook both return, however their steps interleave; no step of one
\* changes a field the other writes; and when both have succeeded on the
\* same dataset it holds the summary, the topic summary and an annotation on
\* every row.
C16_RunsIndependent ==
  /\ (Started("analyze") /\ Started("topics"))
       ~> (\A r \in RunIds : runs[r].kind # "none" => runs[r].pc = "done")
  /\ [][/\ StepOf("analyze") => Keeps(TopicsFields)
        /\ StepOf("topics") => Keeps(AnalysisFields)]_vars
  /\ [](\A r, q \in RunIds :
          BothSucceeded(r, q)
          => LET t == tables[runs[r].index + 1]
             IN  /\ t.analysis = ReplyContent([kind |-> "agg", run |-> r])
                 /\ t.analysisApiStatus = "success"
                 /\ ~t.isAnalyzing
                 /\ t.topicsAnalysis = ReplyContent([kind |-> "agg", run |-> q])
                 /\ t.topicsApiStatus = "success"
                 /\ ~t.isAnalyzingTopics
                 /\ Len(t.data) = runs[q].rows
                 /\ \A i \in 1..Len(t.data) :
                      AnnotationOf(t, i) \in RowResults(i) \cup {MARK_EMPTY})

\* a topic analysis and then an overall analysis were started on a dataset
\* of 4 rows, and both have succeeded
C16_Witness ==
  /\ BothSucceeded(2, 1)
  /\ runs[1].rows = 4
  /\ tables[runs[1].index + 1].analysisApiMessage = "overall analysis done"
  /\ tables[runs[1].index + 1].topicsApiMessage = "topic analysis done"

-----------------------------------------------------------------------------
(* Ingestion over the results of earlier runs.                              *)

\* the columns after the first three that are analyzable, in source order
AnalyzableColumns ==
  SelectSeq(SubSeq(reading.header, 4, Len(reading.header)),
            LAMBDA c : /\ HasMarker(c)
                       /\ Cardinality(DistinctValues(CellsOf(c))) >= UNIQUE_THRESHOLD)

\* a dataset as ingestion leaves it: no run under way, no result
Idle(t) ==
  /\ ~t.isAnalyzing
  /\ ~t.isAnalyzingTopics
  /\ t.analysis = Undefined
  /\ t.commonTopics = <<>>
  /\ t.topicsAnalysis = Undefined
  /\ t.analysisApiStatus = Undefined
  /\ t.topicsApiStatus = Undefined
  /\ \A j \in 1..Len(t.data) : Get(t.data[j], COL_TOPIC) = Undefined

\* C17: the step that ingests a readable workbook with rows leaves one
\* dataset for each analyzable column after the first three, in source
\* order, each of them idle and without results, whatever the list held
\* before.
C17_IngestReplacesDatasets ==
  [][Ingests
     => /\ Len(tables') = Len(AnalyzableColumns)
        /\ \A k \in 1..Len(tables') :
             /\ TargetOf(tables'[k]) = AnalyzableColumns[k]
             /\ Idle(tables'[k])]_vars

\* a topic analysis has succeeded on a dataset whose place is now taken by
\* an idle dataset, with as many datasets as FileA gives
C17_Witness ==
  /\ reading = NoFile
  /\ Len(tables) = 2
  /\ \E r \in RunIds :
       /\ runs[r].kind = "topics" /\ runs[r].pc = "done" /\ runs[r].result = "success"
       /\ Idle(tables[runs[r].index + 1])
  /\ \A k \in 1..Len(tables) : Idle(tables[k])

-----------------------------------------------------------------------------
(* The topic list of a topic analysis.                                     *)

\* the text has nothing but delimiters and spaces: no topic can be read
\* from it
NoTopicIn(text) ==
  \A i \in 1..Len(text) :
    SubSeq(text, i, i) = " " \/ Includes(SEPARATORS, SubSeq(text, i, i))

\* the topic analysis r is between its start and its return
TopicsUnderWay(r) ==
  runs[r].kind = "topics" /\ runs[r].pc \in {"rowWait", "aggWait"}

\* the step does not ingest a workbook
NoIngest == reading = NoFile \/ reading' # NoFile

\* C18: no step starts a topic analysis from an input without a topic; the
\* step that starts one stores the captured list, which is non-empty and has
\* no blank entry, in the dataset; the captured list never changes, every
\* request of the run carries it, and no step other than the ingestion of a
\* workbook changes the list stored in the run's dataset, whatever is typed
\* into the input meanwhile.
C18_TopicsFixedForRun ==
  /\ [](\A r \in RunIds :
          TopicsUnderWay(r)
          => /\ runs[r].topics # <<>>
             /\ \A k \in 1..Len(runs[r].topics) : ~IsBlank(runs[r].topics[k])
             /\ runs[r].request.topics = runs[r].topics)
  /\ [][\A r \in RunIds :
          /\ (runs[r].kind = "none" /\ runs'[r].kind = "topics")
             => /\ ~NoTopicIn(commonTopicsInput)
                /\ tables'[runs'[r].index + 1].commonTopics = runs'[r].topics
          /\ (TopicsUnderWay(r) /\ runs'[r].pc # "done")
             => runs'[r].topics = runs[r].topics
          /\ (TopicsUnderWay(r) /\ NoIngest
              /\ runs[r].index < Len(tables)
              /\ tables[runs[r].index + 1].commonTopics = runs[r].topics)
             => tables'[runs[r].index + 1].commonTopics = runs[r].topics]_vars

\* the final request of a topic analysis is in flight with the two topics
\* captured at the start, the dataset holds the same list, and the input now
\* holds a text without a topic
C18_Witness ==
  \E r \in RunIds :
    /\ runs[r].kind = "topics" /\ runs[r].pc = "aggWait"
    /\ Len(runs[r].topics) = 2
    /\ runs[r].request.topics = runs[r].topics
    /\ runs[r].index < Len(tables)
    /\ tables[runs[r].index + 1].commonTopics = runs[r].topics
    /\ commonTopicsInput # ""
    /\ NoTopicIn(commonTopicsInput)

-----------------------------------------------------------------------------
(* Failures and the status shown to the user.                              *)

\* the status and message of the overall analysis / of the topic analysis
\* shown for dataset t
AnalysisShown(t) == <<t.analysisApiStatus, t.analysisApiMessage>>

TopicsShown(t) == <<t.topicsApiStatus, t.topicsApiMessage>>

\* C19: when a request of a run fails (a batch request, a row request or a
\* final request), the step that handles the failure leaves in the dataset's
\* status and message something that tells the failure: at the least, they
\* are not what they would be had the request succeeded.
C19_NoSilentFailure ==
  [][\A r \in RunIds, outcome \in BadOutcomes :
       LET i == runs[r].index + 1
       IN  /\ (analyzeBatchResponse(r, outcome) /\ Targets(r))
              => AnalysisShown(tables'[i])
                   # AnalysisShown(AfterBatchResponse(r, runs[r], tables, "ok").tables[i])
           /\ (analyzeAggResponse(r, outcome) /\ Targets(r))
              => AnalysisShown(tables'[i])
                   # AnalysisShown(AfterAnalyzeAgg(runs[r], tables, "ok").tables[i])
           /\ (topicsRowResponse(r, outcome) /\ Targets(r))
              => TopicsShown(tables'[i])
                   # TopicsShown(AfterRowResponse(r, runs[r], tables, "ok").tables[i])
           /\ (topicsAggResponse(r, outcome) /\ Targets(r))
              => TopicsShown(tables'[i])
                   # TopicsShown(AfterTopicsAgg(runs[r], tables, "ok").tables[i])]_vars

-----------------------------------------------------------------------------
(* Workbooks that cannot be ingested.                                      *)

\* the workbook being read cannot be parsed, or has no row
Unusable(file) == file.ext # "none" /\ (~file.readable \/ Len(file.rows) = 0)

\* C20: reader.onload on a workbook that cannot be parsed or has no row
\* shows an error message and leaves the dataset list, results included, as
\* it was; the upload is enabled again.
C20_BadWorkbookAborts ==
  [][(Unusable(reading) /\ reading' = NoFile)
     => /\ tables' = tables
        /\ ingestMessage' \in {MSG_EMPTY, MSG_ERROR}
        /\ ~loading']_vars

\* after an overall analysis has succeeded, a workbook without rows was
\* uploaded: the error is shown and the dataset still has its summary
C20_Witness ==
  /\ reading = NoFile
  /\ ingestMessage = MSG_EMPTY
  /\ \E r \in RunIds :
       /\ runs[r].kind = "analyze" /\ runs[r].pc = "done" /\ runs[r].result = "success"
       /\ runs[r].index < Len(tables)
       /\ tables[runs[r].index + 1].analysis = ReplyContent([kind |-> "agg", run |-> r])

-----------------------------------------------------------------------------
(* Runs on different datasets of one workbook.                             *)

\* the invocation r takes a step: it starts, goes on, or returns
StepsOf(r) == runs'[r] # runs[r]

\* the invocation r as it would be with its dataset alone in the list
Alone(r) == [runs[r] EXCEPT !.index = 0]

\* C21: a step of a run on dataset i leaves every other dataset of the list
\* as it was; what the step makes of dataset i is what it would make of it
\* were dataset i alone in the list; and a run that succeeds leaves its own
\* summary in its dataset, whatever runs on the other datasets.
C21_OtherDatasetsUntouched ==
  [][\A r \in RunIds :
       StepsOf(r) =>
         LET i == runs'[r].index + 1
             own == <<tables[i]>>
         IN  /\ Len(tables') = Len(tables)
             /\ \A j \in 1..Len(tables) : j # i => tables'[j] = tables[j]
             /\ \A outcome \in DuoAggOutcomes :
                  /\ analyzeBatchResponse(r, outcome)
                     => tables'[i] = AfterBatchResponse(r, Alone(r), own, outcome).tables[1]
                  /\ analyzeAggResponse(r, outcome)
                     => tables'[i] = AfterAnalyzeAgg(Alone(r), own, outcome).tables[1]
                  /\ topicsRowResponse(r, outcome)
                     => tables'[i] = AfterRowResponse(r, Alone(r), own, outcome).tables[1]
                  /\ topicsAggResponse(r, outcome)
                     => tables'[i] = AfterTopicsAgg(Alone(r), own, outcome).tables[1]
             /\ (Returns(r, "analyze") /\ runs'[r].result = "success")
                => tables'[i].analysis = ReplyContent([kind |-> "agg", run |-> r])
             /\ (Returns(r, "topics") /\ runs'[r].result = "success")
                => tables'[i].topicsAnalysis = ReplyContent([kind |-> "agg", run |-> r])]_vars

\* an overall analysis of one dataset has succeeded and one of the other
\* dataset has failed, each dataset showing its own run's outcome
C21_Witness ==
  /\ Len(tables) = 2
  /\ \E r, q \in RunIds :
       /\ runs[r].kind = "analyze" /\ runs[r].pc = "done" /\ runs[r].result = "success"
       /\ runs[q].kind = "analyze" /\ runs[q].pc = "done" /\ runs[q].result = "error"
       /\ runs[r].index # runs[q].index
       /\ tables[runs[r].index + 1].analysisApiStatus = "success"
       /\ tables[runs[q].index + 1].analysisApiStatus = "error"
       /\ tables[runs[q].index + 1].analysis = Undefined

-----------------------------------------------------------------------------
(* The in-progress guards (lines 893 and 1354).                            *)

\* the invocation r is between its start and its return
UnderWay(r) == runs[r].pc \in {"batchWait", "rowWait", "aggWait"}

\* the dataset the invocation r was started on is still in the list (in
\* SpecReingest no two datasets ever ingested have the same name)
OnLiveDataset(r) ==
  /\ UnderWay(r)
  /\ runs[r].index < Len(tables)
  /\ tables[runs[r].index + 1].name = runs[r].currentTable.name

\* the flag the handler of the given kind tests before anything else
InProgressFlag(t, kind) == IF kind = "analyze" THEN t.isAnalyzing ELSE t.isAnalyzingTopics

\* C22: while a run of a kind is under way on a dataset, the flag that makes
\* another invocation of the same handler on that dataset return at once is
\* set, and no second run of the kind is under way on the dataset.
C22_InProgressGuard ==
  \A r \in RunIds :
    OnLiveDataset(r)
    => /\ InProgressFlag(tables[runs[r].index + 1], runs[r].kind)
       /\ \A q \in RunIds \ {r} :
            (OnLiveDataset(q) /\ runs[q].kind = runs[r].kind)
            => runs[q].index # runs[r].index

-----------------------------------------------------------------------------
(* Termination of the handlers (lines 908-1143 and 1376-1585).             *)

\* the status field of the given kind
StatusOf(t, kind) == IF kind = "analyze" THEN t.analysisApiStatus ELSE t.topicsApiStatus

\* the invocation r has returned, and its dataset shows the run as over
Settled(r) ==
  /\ runs[r].pc = "done"
  /\ runs[r].result \in {"success", "error"}
  /\ ~InProgressFlag(tables[runs[r].index + 1], runs[r].kind)
  /\ StatusOf(tables[runs[r].index + 1], runs[r].kind) = runs[r].result

\* C23: every request being answered or failing in the end, a run that has
\* started returns, leaving the in-progress flag of its dataset false and
\* the status of its dataset 'success' or 'error'.
C23_RunsFinish == \A r \in RunIds : UnderWay(r) ~> Settled(r)

C23_Witness ==
  \E r, q \in RunIds :
    /\ Settled(r) /\ runs[r].result = "error" /\ Len(runs[r].sent) > 1
    /\ Settled(q) /\ runs[q].result = "success" /\ runs[q].kind # runs[r].kind

-----------------------------------------------------------------------------
(* A run and the workbook ingested during it (lines 1255, 1646-1651).      *)

\* the invocation r is under way and its dataset has been replaced
Orphaned(r) == UnderWay(r) /\ ~OnLiveDataset(r)

\* C24: a run writes only to the dataset it was started on: once another
\* workbook has been ingested, no step of the run changes the list of
\* datasets (no field of a dataset of the new workbook, no row added).
C24_WritesOwnDatasetOnly ==
  [][\A r \in RunIds : (Orphaned(r) /\ StepsOf(r)) => tables' = tables]_vars

-----------------------------------------------------------------------------
(* The failure of the final request (lines 1129-1143 and 1571-1585).       *)

\* the step in which the invocation r returns because its final request failed
AggFails(r) ==
  /\ runs[r].pc = "aggWait"
  /\ runs'[r].pc = "done"
  /\ runs'[r].result = "error"

\* the fields of a dataset that hold its rows and the results of its runs
ResultFields == {"name", "columns", "data", "commonTopics", "analysis", "topicsAnalysis"}

\* C25: the failure of a run's final request leaves the results in place:
\* the step changes no dataset's rows, topic list or summaries, and after a
\* failed classification every row the run asked about carries an annotation.
C25_FailureKeepsProgress ==
  [][\A r \in RunIds :
       AggFails(r)
       => /\ Len(tables') = Len(tables)
          /\ \A i \in 1..Len(tables) :
               \A f \in ResultFields : tables'[i][f] = tables[i][f]
          /\ runs[r].kind = "topics"
             => \A k \in 1..Len(tables'[runs[r].index + 1].data) :
                  RowTag(k - 1) \in Range(runs[r].sent)
                  => Truthy(Get(tables'[runs[r].index + 1].data[k], COL_TOPIC))]_vars

C25_Witness ==
  \E r \in RunIds :
    /\ runs[r].kind = "topics"
    /\ runs[r].pc = "done"
    /\ runs[r].result = "error"
    /\ "agg" \in runs[r].failed
    /\ "row0" \in Range(runs[r].sent)
    /\ LET t == tables[runs[r].index + 1]
       IN  /\ t.topicsApiStatus = "error"
           /\ Truthy(t.topicsAnalysis)
           /\ Truthy(Get(t.data[1], COL_TOPIC))

-----------------------------------------------------------------------------
(* The columns of an ingested dataset (lines 1173-1207).                   *)

\* the columns of a dataset before the one it was built for
IdentityOf(t) == Slice(t.columns, 0, Len(t.columns) - 1)

\* C26: the identity columns of every dataset an ingest creates are the
\* first min(3, number of columns) columns of the sheet, in the sheet's
\* order, and the column the dataset was built for is not one of them.
C26_IdentityColumns ==
  [][Ingests
     => \A k \in 1..Len(tables') :
          LET t == tables'[k]
              n == Min(3, Len(reading.header))
          IN  /\ IdentityOf(t) = Slice(reading.header, 0, n)
              /\ TargetOf(t) \notin Range(IdentityOf(t))
              /\ TargetOf(t) \in Range(reading.header)]_vars

C26_Witness ==
  /\ reading = NoFile
  /\ Len(tables) = 2
  /\ IdentityOf(tables[2]) = <<"uid", "dept", "grade">>
  /\ TargetOf(tables[2]) = "TEXTAREA"
  /\ TargetOf(tables[1]) = "Q0_text"

-----------------------------------------------------------------------------
(* The progress messages of the classification (lines 1397-1448).          *)

\* `第${batchIndex + 1}批：已处理${rowIndex + 1}/${batch.length}行数据`
RowProgress(run) ==
  "batch " \o ToString(run.batchIndex + 1) \o ": processed "
    \o ToString(run.rowIndex + 1) \o "/"
    \o ToString(Len(run.batches[run.batchIndex + 1])) \o " rows"

\* `正在处理第 ${batchIndex + 1}/${batches.length} 批数据...`
BatchProgress(run) ==
  "processing batch " \o ToString(run.batchIndex + 1)
    \o "/" \o ToString(Len(run.batches))

\* the datasets once the handler has dealt with the outcome of the row it
\* awaits (lines 1416-1448), before the loop goes on to the next row
RowHandled(r, outcome) ==
  IF RowSucceeds(outcome)
  THEN RowAnnotated(tables, runs[r], MessageContent(runs[r].request, outcome))
  ELSE RowFailed(tables, runs[r])

\* the classification r awaits the answer for a row of its own dataset
AwaitsRow(r) ==
  /\ runs[r].kind = "topics"
  /\ runs[r].pc = "rowWait"
  /\ OnLiveDataset(r)

\* C27: the classification reports its progress at the start of every batch
\* and after every PROGRESS_EVERY-th row of a batch, whether the request of
\* that row succeeded or failed.
C27_ProgressCadence ==
  \A r \in RunIds :
    AwaitsRow(r)
    => /\ runs[r].rowIndex = 0
          => tables[runs[r].index + 1].topicsApiMessage = BatchProgress(runs[r])
       /\ (runs[r].rowIndex + 1) % PROGRESS_EVERY = 0
          => \A outcome \in Outcomes :
               RowHandled(r, outcome)[runs[r].index + 1].topicsApiMessage
                 = RowProgress(runs[r])

-----------------------------------------------------------------------------
(* The rows of a dataset under classification (lines 1409-1448).           *)

\* row b is row a with at most the annotation set or replaced
SameButTopic(a, b) ==
  /\ DOMAIN b = DOMAIN a \cup (DOMAIN b \cap {COL_TOPIC})
  /\ \A f \in DOMAIN a \ {COL_TOPIC} : b[f] = a[f]

\* the step in which the classification r resumes with the answer for a row
RowAnswered(r) ==
  /\ runs[r].kind = "topics"
  /\ runs[r].pc = "rowWait"
  /\ StepsOf(r)

\* C28: without an ingest, a classification changes the rows of the datasets
\* only by setting annotations: the answer for the row at the global position
\* batchIndex * BATCH_SIZE + rowIndex is stored on that row, the rows before
\* it are left as they are, no row changes in another field, and the number
\* and the order of the rows stay the same.
C28_OnlyAnnotations ==
  [][\A r \in RunIds :
       (runs'[r].kind = "topics" /\ StepsOf(r))
       => /\ Len(tables') = Len(tables)
          /\ \A i \in 1..Len(tables) :
               /\ Len(tables'[i].data) = Len(tables[i].data)
               /\ \A k \in 1..Len(tables[i].data) :
                    /\ SameButTopic(tables[i].data[k], tables'[i].data[k])
                    /\ i # runs'[r].index + 1 => tables'[i].data[k] = tables[i].data[k]
          /\ RowAnswered(r)
             => LET data == tables[runs[r].index + 1].data
                    after == tables'[runs[r].index + 1].data
                    globalIndex == runs[r].batchIndex * BATCH_SIZE + runs[r].rowIndex
                IN  /\ runs[r].request.at = globalIndex
                    /\ Get(after[globalIndex + 1], COL_TOPIC)
                         = IF RowTag(globalIndex) \in runs'[r].failed
                           THEN MARK_FAILED
                           ELSE ReplyContent(runs[r].request)
                    /\ \A k \in 1..globalIndex : after[k] = data[k]]_vars

C28_Witness ==
  \E r \in RunIds :
    /\ runs[r].kind = "topics"
    /\ runs[r].pc = "done"
    /\ "row0" \in runs[r].failed
    /\ LET data == tables[runs[r].index + 1].data
       IN  /\ Len(data) = 4
           /\ data[1][COL_TOPIC] = MARK_FAILED
           /\ data[2][COL_TOPIC] = MARK_EMPTY
           /\ data[4][COL_TOPIC] = "reply to row 4"
           /\ data[4]["Q1_text"] = "c"

-----------------------------------------------------------------------------
(* The in-progress flags and the statuses of a dataset.                    *)

\* C29: in every dataset isAnalyzing is true exactly when analysisApiStatus
\* is 'analyzing', isAnalyzingTopics is true exactly when topicsApiStatus is
\* 'analyzing', and a dataset with analysisApiStatus 'success' has a summary
\* stored in its analysis field.
C29_FlagsMatchStatus ==
  \A i \in 1..Len(tables) :
    /\ tables[i].isAnalyzing <=> tables[i].analysisApiStatus = "analyzing"
    /\ tables[i].isAnalyzingTopics <=> tables[i].topicsApiStatus = "analyzing"
    /\ tables[i].analysisApiStatus = "success" => tables[i].analysis # Undefined

C29_Witness ==
  \E i \in 1..Len(tables) :
    /\ tables[i].analysisApiStatus = "success"
    /\ ~tables[i].isAnalyzing
    /\ tables[i].analysis = ""
    /\ tables[i].topicsApiStatus = Undefined
    /\ ~tables[i].isAnalyzingTopics

-----------------------------------------------------------------------------
(* A new attempt after a failed analysis (lines 892-906, 1129-1143 and     *)
(* 1740-1746).                                                              *)

\* the step in which the analysis r returns in the error state
AnalysisFails(r) == Returns(r, "analyze") /\ runs'[r].result = "error"

\* the step in which the analysis q is started on the dataset on which the
\* analysis r has failed
Retries(r, q) ==
  /\ runs[r].kind = "analyze"
  /\ runs[r].pc = "done"
  /\ runs[r].result = "error"
  /\ runs[q].kind = "none"
  /\ runs'[q].kind = "analyze"
  /\ runs'[q].index = runs[r].index

\* C30: an analysis that fails stores no summary and leaves the button of
\* its dataset enabled; an analysis started on the dataset afterwards sets
\* the status back to 'analyzing', starts again from the first batch, and
\* has requested every batch by the time it returns.
C30_RetryAfterFailure ==
  [][\A r \in RunIds :
       /\ AnalysisFails(r)
          => LET i == runs'[r].index + 1
             IN  /\ tables'[i].analysis = tables[i].analysis
                 /\ tables'[i].analysis = Undefined
                 /\ tables'[i].analysisApiStatus = "error"
                 /\ ~tables'[i].isAnalyzing
       /\ \A q \in RunIds :
            Retries(r, q)
            => LET i == runs'[q].index + 1
               IN  /\ tables'[i].isAnalyzing
                   /\ tables'[i].analysisApiStatus = "analyzing"
                   /\ runs'[q].batchIndex = 0
                   /\ runs'[q].batchResults = <<>>
                   /\ runs'[q].sent = <<BatchTag(0)>>
       /\ \A q \in RunIds :
            (q > r /\ runs[r].kind = "analyze" /\ runs[r].result = "error"
               /\ Returns(q, "analyze") /\ runs'[q].index = runs[r].index)
            => runs'[q].sent = ExpectedSent(runs'[q].rows)]_vars

C30_Witness ==
  \E r, q \in RunIds :
    /\ r < q
    /\ runs[r].kind = "analyze" /\ runs[r].pc = "done" /\ runs[r].result = "error"
    /\ runs[q].kind = "analyze" /\ runs[q].pc = "done" /\ runs[q].result = "success"
    /\ runs[q].index = runs[r].index
    /\ runs[q].sent = ExpectedSent(runs[q].rows)
    /\ Len(runs[q].sent) = 3
    /\ tables[runs[q].index + 1].analysis = "summary of run " \o ToString(q)

-----------------------------------------------------------------------------
(* Dataset names and the column a run reads (lines 1245-1247, 939-945 and  *)
(* 1393-1412).                                                              *)

\* names of the column under test that look like parts of a dataset name
TrickyNames ==
  {"Q1_text", "biaoge - text", "text(gong 3 tiao shuju)", "(gong 7 tiao shuju) text 9"}

NameValues == {SENTINEL, "a", " b"}

\* the workbooks whose last column has a name of TrickyNames
NameFiles ==
  {GenFile(name, cells) : name \in TrickyNames, cells \in [1..SheetRows -> NameValues]}

\* processExcelFile has been called for a workbook of NameFiles
InitNames ==
  /\ loading = TRUE
  /\ tables = <<>>
  /\ commonTopicsInput = ""
  /\ reading \in NameFiles
  /\ ingestMessage = MSG_NONE
  /\ runs = [r \in RunIds |-> NoRun]
  /\ net = {}

\* The workbook is ingested, then one overall analysis and one topic
\* analysis run on its datasets, every request being answered.
NextNames ==
  \/ readerOnLoad
  \/ \E text \in DuoTexts : setCommonTopicsInput(text)
  \/ \E index \in 0..1 : ~Started("analyze") /\ clickAnalyze(index)
  \/ \E index \in 0..1 : ~Started("topics") /\ clickTopicsAnalysis(index)
  \/ \E r \in RunIds : analyzeBatchResponse(r, "ok")
  \/ \E r \in RunIds : analyzeAggResponse(r, "ok")
  \/ \E r \in RunIds : topicsRowResponse(r, "ok")
  \/ \E r \in RunIds : topicsAggResponse(r, "ok")

SpecNames == InitNames /\ [][NextNames]_vars

\* the numbers of rows the round trip is computed for
RowCounts == {0, 1, 9, 10, 305}

\* the text of each row of a request of the run r is the value the row has
\* in the column the run's dataset was built for
SendsTargetValues(r) ==
  LET run == runs[r]
      target == TargetOf(run.currentTable)
      req == run.request
  IN  CASE req.kind = "batch" ->
             \A i \in 1..Len(req.batchData) :
               req.batchData[i].content = run.batches[req.at + 1][i][target]
        [] req.kind = "row" ->
             req.content = run.currentTable.data[req.at + 1][target]
        [] req.kind = "agg" /\ run.kind = "topics" ->
             \A i \in 1..Len(req.analysisData) :
               req.analysisData[i].content = run.currentTable.data[i][target]
        [] OTHER -> TRUE

\* C31: stripping the prefix and the suffix from the name ingest gives a
\* dataset yields the column the dataset was built for, for every column
\* name and number of rows, so a run reads each row's text from the target
\* column and sends the row's target value.
C31_ColumnNameRoundTrip ==
  /\ \A c \in TrickyNames, n \in RowCounts : ExtractColumnName(TableName(c, n)) = c
  /\ \A k \in 1..Len(tables) : ExtractColumnName(tables[k].name) = TargetOf(tables[k])
  /\ \A r \in RunIds :
       UnderWay(r)
       => /\ runs[r].columnName = TargetOf(runs[r].currentTable)
          /\ SendsTargetValues(r)

C31_Witness ==
  \E r \in RunIds :
    /\ runs[r].pc = "batchWait"
    /\ runs[r].currentTable.name = "biaoge - biaoge - text(gong 3 tiao shuju)"
    /\ runs[r].columnName = "biaoge - text"
    /\ runs[r].request.batchData[2].content = " b"

-----------------------------------------------------------------------------
(* The identity summary of a row in a request (lines 942-945, 1465-1469    *)
(* and 1222-1225).                                                          *)

\* the identity summary made of the values the row has in the first two
\* identity columns of its dataset
IdentitySummary(row, t) ==
  Or(Get(row, t.columns[1]), "") \o "-" \o Or(Get(row, t.columns[2]), "")

\* the rows a request of the run r serializes, with their identity summaries
SerializedRows(r) ==
  LET run == runs[r]
      req == run.request
  IN  CASE req.kind = "batch" ->
             {<<run.batches[req.at + 1][i], req.batchData[i].userInfo>> :
                i \in 1..Len(req.batchData)}
        [] req.kind = "agg" /\ run.kind = "topics" ->
             {<<run.currentTable.data[i], req.analysisData[i].userInfo>> :
                i \in 1..Len(req.analysisData)}
        [] OTHER -> {}

\* C32: each row serialized into a batch request or into the aggregation
\* request of a classification carries the identity values the row has in
\* its dataset, whatever the names of the workbook's identity columns.
C32_RequestsCarryIdentity ==
  \A r \in RunIds :
    UnderWay(r)
    => \A p \in SerializedRows(r) : p[2] = IdentitySummary(p[1], runs[r].currentTable)

-----------------------------------------------------------------------------
(* The loading flag (lines 1151-1265 and 1646-1655).                       *)

\* The FileReader fails to read the file: it fires 'error' instead of
\* 'load'.  processExcelFile sets reader.onload only (line 1154), so no code
\* runs for the event.
readerOnError ==
  /\ reading # NoFile
  /\ reading' = NoFile
  /\ UNCHANGED <<loading, tables, commonTopicsInput, ingestMessage, runs, net>>

\* the read of the file settles: the FileReader fires 'load' or 'error'
ReadSettles == readerOnLoad \/ readerOnError

\* Uploads of the files of Files, each read succeeding or failing, and the
\* topics input being edited.
NextUpload ==
  \/ \E file \in Files : handleUpload(file)
  \/ readerOnLoad
  \/ readerOnError
  \/ \E text \in TopicTexts : setCommonTopicsInput(text)

SpecUpload == Init /\ [][NextUpload]_vars /\ WF_vars(ReadSettles)

\* C33: every ingest attempt clears the loading flag in the end, whether it
\* succeeds, finds an empty workbook, fails to parse or fails to read the
\* file, and while loading is set no other ingest starts.
C33_LoadingCleared ==
  /\ loading ~> ~loading
  /\ [][loading => reading' \in {reading, NoFile}]_vars

-----------------------------------------------------------------------------
(* The analysis button and the stored summary (lines 1740-1754 and         *)
(* 1117-1125).                                                              *)

\* Up to MaxRuns overall analyses on the datasets of one workbook, started
\* with the button, no other workbook being uploaded; the backend answers a
\* batch, and the final request with a text, with an empty text or not at all.
NextLoadedAnalyze ==
  \/ \E index \in 0..1 : clickAnalyze(index)
  \/ \E r \in RunIds : analyzeBatchResponse(r, "ok")
  \/ \E r \in RunIds, outcome \in DuoOutcomes : analyzeAggResponse(r, outcome)

SpecLoadedAnalyze == InitLoaded /\ [][NextLoadedAnalyze]_vars

\* the step in which the analysis r is started
AnalysisStarts(r) == runs[r].kind = "none" /\ runs'[r].kind = "analyze"

\* C34: with the workbook staying the same, an analysis is started on a
\* dataset only while the dataset is not being analysed and has no summary,
\* and a summary stored in a dataset is never replaced.
C34_SummaryNeverReplaced ==
  [][/\ \A r \in RunIds :
          AnalysisStarts(r)
          => /\ ~tables[runs'[r].index + 1].isAnalyzing
             /\ ~Truthy(tables[runs'[r].index + 1].analysis)
     /\ \A i \in 1..Len(tables) :
          tables[i].analysis # Undefined
          => tables'[i].analysis = tables[i].analysis]_vars

-----------------------------------------------------------------------------
(* A request that is never answered (lines 1004-1024 and 1409-1416).       *)

\* the request the run r awaits is still unanswered after the step
StillAwaits(r) ==
  /\ UnderWay(r)
  /\ InFlight(r, runs[r]) \in net
  /\ InFlight(r, runs[r]) \in net'

\* C35: as long as the request a run awaits is not answered, the run sends
\* no other request and writes no result, and the in-progress flag and the
\* status 'analyzing' of its dataset stay: nothing but the answer moves the
\* run on.
C35_HungRequestHangsRun ==
  [][\A r \in RunIds :
       StillAwaits(r)
       => /\ runs'[r] = runs[r]
          /\ InProgressFlag(tables'[runs[r].index + 1], runs[r].kind)
          /\ StatusOf(tables'[runs[r].index + 1], runs[r].kind) = "analyzing"
          /\ LET f == IF runs[r].kind = "analyze" THEN "analysis" ELSE "topicsAnalysis"
             IN  tables'[runs[r].index + 1][f] = tables[runs[r].index + 1][f]]_vars

C35_Witness ==
  \E r, q \in RunIds :
    /\ r < q
    /\ UnderWay(r)
    /\ Len(runs[r].sent) = 1
    /\ InFlight(r, runs[r]) \in net
    /\ runs[q].pc = "done"
    /\ runs[q].result = "success"
    /\ InProgressFlag(tables[runs[r].index + 1], runs[r].kind)
    /\ StatusOf(tables[runs[r].index + 1], runs[r].kind) = "analyzing"

-----------------------------------------------------------------------------
(* The earlier iteration of the component (lines 1-792).  Its definitions  *)
(* carry the suffix V1.  processedTables and apiStatus are its state.      *)

\* const [processedTables, setProcessedTables] = useState([]) (line 39)
processedTables == tables

\* const [apiStatus, setApiStatus] = useState(...) (lines 41-45), without
\* the timestamp
apiStatus == ingestMessage

\* the blacklist of line 55-70: 单选, 多选, 开始时间, 结束时间, 组织编码,
\* 组织信息, 岗位名称, 公司所在城市, 工作所在城市, 品牌, 门店信息, 条线,
\* 所属组织; /ucid/i is tested apart
SkipPatternsV1 ==
  {"danxuan", "duoxuan", "kaishishijian", "jieshushijian", "zuzhibianma",
   "zuzhixinxi", "gangweimingcheng", "gongsisuozaichengshi",
   "gongzuosuozaichengshi", "pinpai", "mendianxinxi", "tiaoxian", "suoshuzuzhi"}

\* skipPatterns.some(pattern => pattern.test(columnName)) (line 79)
MatchesSkipPattern(columnName) ==
  \/ \E p \in SkipPatternsV1 : Includes(columnName, p)
  \/ Includes(ToLowerCase(columnName), "ucid")

\* /[单多]选/.test(columnName) (line 72)
HasChoiceWord(columnName) ==
  Includes(columnName, "danxuan") \/ Includes(columnName, "duoxuan")

\* columnName.replace(/[单多]选/, ''): the leftmost match is removed
RemoveChoiceWord(columnName) ==
  LET w == Len("danxuan")
      starts == {i \in 1..(Len(columnName) - w + 1) :
                   SubSeq(columnName, i, i + w - 1) \in {"danxuan", "duoxuan"}}
  IN  IF starts = {} THEN columnName
      ELSE LET i == CHOOSE j \in starts : \A k \in starts : j <= k
           IN  SubSeq(columnName, 1, i - 1) \o SubSeq(columnName, i + w, Len(columnName))

\* shouldSkipColumnV1 with a blacklist that lacks 单选 and 多选
shouldSkipColumnV1_bareOnly(columnName) ==
  \/ HasChoiceWord(columnName) /\ Trim(RemoveChoiceWord(columnName)) = ""
  \/ \E p \in SkipPatternsV1 \ {"danxuan", "duoxuan"} : Includes(columnName, p)
  \/ Includes(ToLowerCase(columnName), "ucid")

\* shouldSkipColumn of the earlier iteration (lines 54-80)
shouldSkipColumnV1(columnName) ==
  IF HasChoiceWord(columnName) /\ Trim(RemoveChoiceWord(columnName)) = ""
  THEN TRUE
  ELSE MatchesSkipPattern(columnName)

\* hasEnoughUniqueValues of the earlier iteration (lines 89-96):
\* uniqueValues.length > 10
hasEnoughUniqueValuesV1(data, columnName) ==
  LET nonEmptyValues == SelectSeq([i \in 1..Len(data) |-> Get(data[i], columnName)],
                                  LAMBDA value : value # Undefined /\ value # "")
      uniqueValues == Range(nonEmptyValues)
  IN  Cardinality(uniqueValues) > UNIQUE_THRESHOLD

\* tableData of the earlier iteration (lines 346-374): the rows with a
\* non-empty value, projected
ProjectRowsV1(jsonData, firstThreeColumns, column) ==
  LET kept == SelectSeq(jsonData, LAMBDA row : Get(row, column) # Undefined /\ Get(row, column) # "")
  IN  [i \in 1..Len(kept) |-> ProjectRow(kept[i], i - 1, firstThreeColumns, column)]

\* the ProcessedTable pushed for one column (lines 383-390); oid names the
\* object, which the handlers share and change in place
NewTableV1(jsonData, firstThreeColumns, column, oid) ==
  LET tableData == ProjectRowsV1(jsonData, firstThreeColumns, column)
  IN  [oid |-> oid,
       name |-> TableName(column, Len(tableData)),
       data |-> tableData,
       columns |-> firstThreeColumns \o <<column>>,
       analysis |-> Undefined,
       isAnalyzing |-> FALSE,
       commonTopics |-> <<>>,
       isAnalyzingTopics |-> FALSE]

\* the tables built from a non-empty sheet (lines 312-391)
BuildTablesV1(jsonData, allColumns) ==
  LET firstThreeColumns == Slice(allColumns, 0, 3)
      remainingColumns ==
        SelectSeq(Slice(allColumns, 3, Len(allColumns)),
               LAMBDA col : ~shouldSkipColumnV1(col) /\ hasEnoughUniqueValuesV1(jsonData, col))
  IN  [k \in 1..Len(remainingColumns) |->
         NewTableV1(jsonData, firstThreeColumns, remainingColumns[k], <<0, k>>)]

\* reader.onload of the earlier iteration (lines 293-398)
readerOnLoadV1 ==
  /\ reading # NoFile
  /\ processedTables' = IF reading.readable /\ Len(reading.rows) > 0
                        THEN BuildTablesV1(reading.rows, reading.header)
                        ELSE processedTables
  /\ loading' = FALSE
  /\ reading' = NoFile
  /\ UNCHANGED <<commonTopicsInput, apiStatus, runs, net>>

\* the names of the column under test: with and without words of the
\* blacklist
NamesV1 ==
  {"danxuan", " duoxuan ", "Q2 danxuan", "duoxuan danxuan", "UCID", "my_Ucid_x",
   "pinpai", "Q4 kaishishijian", "Q1 wenti", "Q5_text", "xuan dan", "tiao xian"}

ValuesV1 == {"", "a", " a", "b", "c"}

\* the generated workbooks of the earlier iteration
GenFilesV1 ==
  {GenFile(name, cells) : name \in NamesV1, cells \in [1..SheetRows -> ValuesV1]}

\* processExcelFile has been called for a generated workbook
InitIngestV1 ==
  /\ loading = TRUE
  /\ processedTables = <<>>
  /\ commonTopicsInput = ""
  /\ reading \in GenFilesV1
  /\ apiStatus = MSG_NONE
  /\ runs = [r \in RunIds |-> NoRun]
  /\ net = {}

NextIngestV1 == readerOnLoadV1

SpecIngestV1 == InitIngestV1 /\ [][NextIngestV1]_vars

\* the step in which a generated workbook is ingested
IngestsV1 == reading # NoFile /\ reading' = NoFile /\ readerOnLoadV1

\* the column under test of the workbook being read
TestedColumn == reading.header[Len(reading.header)]

\* the number of distinct non-empty values of a column of the workbook
DistinctNonEmpty(c) == Cardinality({reading.rows[i][c] : i \in 1..Len(reading.rows)} \ {""})

\* C36: in the earlier iteration a column that the blacklist lets through is
\* made a dataset exactly when it has at least UNIQUE_THRESHOLD distinct
\* non-empty values, so a column with exactly that many passes.
C36_ThresholdInclusiveV1 ==
  [][IngestsV1
     => \A c \in Range(Slice(reading.header, 3, Len(reading.header))) :
          ~shouldSkipColumnV1(c)
          => ((\E k \in 1..Len(processedTables') : TargetOf(processedTables'[k]) = c)
              <=> DistinctNonEmpty(c) >= UNIQUE_THRESHOLD)]_vars

\* C39: the earlier iteration's shouldSkipColumn rejects a column name exactly
\* when the name matches a pattern of the blacklist: the branch for names
\* made of 单选 or 多选 alone never changes the result, every name containing
\* one of the two is rejected, and ingest builds no dataset for a rejected
\* name.
C39_BlacklistPolicyV1 ==
  [][IngestsV1
     => LET c == TestedColumn
        IN  /\ shouldSkipColumnV1(c) <=> MatchesSkipPattern(c)
            /\ HasChoiceWord(c) => shouldSkipColumnV1(c)
            /\ MatchesSkipPattern(c)
               => \A k \in 1..Len(processedTables') : TargetOf(processedTables'[k]) # c
            /\ (~MatchesSkipPattern(c) /\ DistinctNonEmpty(c) > UNIQUE_THRESHOLD)
               => \E k \in 1..Len(processedTables') : TargetOf(processedTables'[k]) = c]_vars

C39_Witness ==
  /\ reading = NoFile
  /\ Len(processedTables) = 2
  /\ TargetOf(processedTables[2]) = "xuan dan"
  /\ ~shouldSkipColumnV1("xuan dan")
  /\ shouldSkipColumnV1("duoxuan danxuan")

-----------------------------------------------------------------------------
(* The handlers of the earlier iteration (lines 239-283 and 467-530).      *)
(* They copy the array of the state, change the dataset's object in place  *)
(* and store the copy, so an object is shared by every array that was      *)
(* copied from one holding it, and the array a handler stored is the one   *)
(* the next render's handlers close over.  A dataset object carries its    *)
(* identity in oid; an array is named by the invocation that made it.      *)

\* table.field = value on the object oid, seen through one array
MutateIn(arr, oid, fields) ==
  [i \in 1..Len(arr) |-> IF arr[i].oid = oid THEN Spread(arr[i], fields) ELSE arr[i]]

\* the invocations that have not returned
PendingV1 == {"rowsWait", "analysisWait"}

\* table.field = value on the object oid, seen through the arrays the
\* pending invocations hold
MutateRuns(rs, oid, fields) ==
  [p \in RunIds |->
     IF rs[p].pc \in PendingV1
     THEN [rs[p] EXCEPT !.tables = MutateIn(@, oid, fields),
                        !.closure = MutateIn(@, oid, fields)]
     ELSE rs[p]]

\* tables[index] = x on the array named a, seen by the invocations whose
\* render had that array as processedTables
AssignRuns(rs, a, index, x) ==
  [p \in RunIds |->
     IF rs[p].pc \in PendingV1 /\ rs[p].closureId = a
     THEN [rs[p] EXCEPT !.closure[index + 1] = x]
     ELSE rs[p]]

\* setProcessedTables(tables) by invocation r: its array is now the state
SetCurrent(rs, r) ==
  [p \in RunIds |->
     IF rs[p].kind = "none" THEN rs[p] ELSE [rs[p] EXCEPT !.current = (p = r)]]

\* the array of the ingest, which no invocation made
IngestArray == <<0, 0>>

\* the name of the array that is the state
StateArray ==
  IF \E p \in RunIds : runs[p].kind # "none" /\ runs[p].current
  THEN runs[CHOOSE p \in RunIds : runs[p].kind # "none" /\ runs[p].current].array
  ELSE IngestArray

\* commonTopicsInput.split('、'), ';' standing for the delimiter (line 475)
RECURSIVE SplitV1(_, _)
SplitV1(s, cur) ==
  IF s = "" THEN <<cur>>
  ELSE IF SubSeq(s, 1, 1) = ";"
       THEN <<cur>> \o SplitV1(SubSeq(s, 2, Len(s)), "")
       ELSE SplitV1(SubSeq(s, 2, Len(s)), cur \o SubSeq(s, 1, 1))

\* .split('、').filter(t => t.trim()) (line 475): blank entries are dropped,
\* the others are kept as typed
ParseTopicsV1(text) == SelectSeq(SplitV1(text, ""), LAMBDA t : Trim(t) # "")

\* what analyzeDataWithDeepSeek returns (lines 217-230); it never throws
AnalysisTextV1(r, outcome) ==
  IF outcome \in {"http", "neterr"} THEN "analysis failed, retry later"
  ELSE Or(MessageContent([kind |-> "agg", run |-> r], outcome), "no analysis result")

\* the apiStatus analyzeDataWithDeepSeek leaves (lines 213, 221, 228)
AnalysisStatusV1(outcome) ==
  IF outcome \in {"http", "neterr"} THEN "error: API call failed"
  ELSE IF Truthy(MessageContent([kind |-> "agg", run |-> 0], outcome))
       THEN "success: analysis done"
       ELSE "error: no valid analysis result"

\* what analyzeTopicWithDeepSeek returns for row i (lines 459-463)
TopicTextV1(i, outcome) ==
  IF outcome \in {"http", "neterr"} THEN MARK_FAILED
  ELSE Or(MessageContent([kind |-> "topic", at |-> i - 1], outcome), MARK_FAILED)

\* the request of an overall analysis and the requests of the rows
AnalysisRequestV1(r) == [run |-> r, n |-> 0]

RowRequestV1(r, i) == [run |-> r, n |-> i]

\* an invocation that has returned
ReturnedV1(run, result) ==
  [kind |-> run.kind, pc |-> "done", index |-> run.index, array |-> run.array,
   current |-> run.current, chained |-> run.chained, result |-> result]

\* handleAnalyze up to its await (lines 239-261), for the render whose
\* processedTables is closure; chained tells that handleTopicsAnalysis
\* called it
AwaitingAnalysisV1(r, kind, index, closure, closureId, chained) ==
  LET table == closure[index + 1]
      tables_ == MutateIn(closure, table.oid, [isAnalyzing |-> TRUE])
  IN  [kind |-> kind, pc |-> "analysisWait", index |-> index,
       tables |-> tables_, array |-> <<r, 2>>, current |-> TRUE,
       closure |-> tables_, closureId |-> closureId, chained |-> chained,
       columnName |-> TargetOf(table), data |-> table.data]

\* the analysis button of a dataset (lines 713-715): an empty commonTopics
\* array is truthy, so !table.commonTopics never disables it
clickAnalyzeV1(index) ==
  /\ index < Len(processedTables)
  /\ HasFreeRun
  /\ LET table == processedTables[index + 1]
         r == FreeRun
         run == AwaitingAnalysisV1(r, "analyzeV1", index, processedTables, StateArray, FALSE)
     IN  /\ ~(table.isAnalyzing \/ Truthy(table.analysis))
         /\ processedTables' = run.tables
         /\ runs' = SetCurrent([MutateRuns(runs, table.oid, [isAnalyzing |-> TRUE])
                                  EXCEPT ![r] = run], r)
         /\ net' = net \cup {AnalysisRequestV1(r)}
         /\ apiStatus' = "info: analysing column " \o TargetOf(table)
  /\ UNCHANGED <<loading, commonTopicsInput, reading>>

\* the request of an overall analysis completes (lines 261-270): the handler
\* stores a copy of the object as it is now, with the summary
analyzeResponseV1(r, outcome) ==
  /\ runs[r].pc = "analysisWait"
  /\ AnalysisRequestV1(r) \in net
  /\ LET run == runs[r]
         index == run.index
         analysis == AnalysisTextV1(r, outcome)
         updated == Spread(run.tables[index + 1],
                           [oid |-> <<r, 2>>, analysis |-> analysis, isAnalyzing |-> FALSE])
         tables_ == [run.tables EXCEPT ![index + 1] = updated]
     IN  /\ processedTables' = tables_
         /\ runs' = SetCurrent([AssignRuns(runs, run.array, index, updated)
                                  EXCEPT ![r] = ReturnedV1(run, analysis)], r)
         /\ apiStatus' = AnalysisStatusV1(outcome)
  /\ net' = net \ {AnalysisRequestV1(r)}
  /\ UNCHANGED <<loading, commonTopicsInput, reading>>

\* the topics button of a dataset (lines 699-701) and handleTopicsAnalysis
\* up to its await (lines 467-509): table.data.map starts the request of
\* every row before Promise.all is awaited; a dataset has rows, because its
\* column passed hasEnoughUniqueValues
clickTopicsAnalysisV1(index) ==
  /\ index < Len(processedTables)
  /\ HasFreeRun
  /\ Trim(commonTopicsInput) # ""
  /\ LET table == processedTables[index + 1]
         r == FreeRun
         topics == ParseTopicsV1(commonTopicsInput)
         fields == [isAnalyzingTopics |-> TRUE, commonTopics |-> topics]
         tables_ == MutateIn(processedTables, table.oid, fields)
         run == [kind |-> "topicsV1", pc |-> "rowsWait", index |-> index,
                 tables |-> tables_, array |-> <<r, 1>>, current |-> TRUE,
                 closure |-> tables_, closureId |-> StateArray, chained |-> FALSE,
                 topics |-> topics, columnName |-> TargetOf(table),
                 newColumns |-> table.columns \o <<COL_TOPIC>>,
                 rows |-> table.data,
                 results |-> [i \in 1..Len(table.data) |-> Undefined]]
     IN  /\ ~table.isAnalyzingTopics
         /\ topics # <<>>
         /\ Len(table.data) > 0
         /\ processedTables' = tables_
         /\ runs' = SetCurrent([MutateRuns(runs, table.oid, fields) EXCEPT ![r] = run], r)
         /\ net' = net \cup {RowRequestV1(r, i) : i \in 1..Len(table.data)}
         /\ apiStatus' = "info: analysing every row"
  /\ UNCHANGED <<loading, commonTopicsInput, reading>>

\* Promise.all has resolved (lines 511-523): the handler stores the rows with
\* their topicAnalysis, then calls handleAnalyze(index) of its own render and
\* does not await it
topicsCompleteV1(r, run) ==
  LET index == run.index
      analyzedData == [k \in 1..Len(run.rows) |->
                         Put(run.rows[k], "topicAnalysis", run.results[k])]
      updated == Spread(run.tables[index + 1],
                        [oid |-> <<r, 1>>, data |-> analyzedData,
                         columns |-> run.newColumns, isAnalyzingTopics |-> FALSE])
      tables_ == [run.tables EXCEPT ![index + 1] = updated]
      stored == AssignRuns(runs, run.array, index, updated)
      table == run.closure[index + 1]
      chain == AwaitingAnalysisV1(r, run.kind, index, run.closure, run.closureId, TRUE)
  IN  /\ IF table.isAnalyzing \/ Truthy(table.analysis)
         THEN /\ processedTables' = tables_
              /\ runs' = SetCurrent([stored EXCEPT ![r] = ReturnedV1(run, "classified")], r)
              /\ net' = net \ InFlightOf(r)
         ELSE /\ processedTables' = chain.tables
              /\ runs' = SetCurrent([MutateRuns(stored, table.oid, [isAnalyzing |-> TRUE])
                                       EXCEPT ![r] = chain], r)
              /\ net' = (net \ InFlightOf(r)) \cup {AnalysisRequestV1(r)}
      /\ apiStatus' = "success: topics analysis done"

\* the request of row i completes (lines 501-507); the last one to complete
\* resolves Promise.all
topicsRowResponseV1(r, i, outcome) ==
  /\ runs[r].pc = "rowsWait"
  /\ RowRequestV1(r, i) \in net
  /\ LET run == [runs[r] EXCEPT !.results[i] = TopicTextV1(i, outcome)]
     IN  IF \E k \in 1..Len(run.rows) : RowRequestV1(r, k) \in net \ {RowRequestV1(r, i)}
         THEN /\ runs' = [runs EXCEPT ![r] = run]
              /\ net' = net \ {RowRequestV1(r, i)}
              /\ UNCHANGED <<processedTables, apiStatus>>
         ELSE topicsCompleteV1(r, run)
  /\ UNCHANGED <<loading, commonTopicsInput, reading>>

\* the outcomes of a request in the scenarios of the earlier iteration
EarlyOutcomes == {"ok", "empty", "http"}

EarlyRowOutcomes == {"ok", "http"}

\* a workbook of DuoFiles has been ingested by the earlier iteration
InitEarly ==
  /\ loading = FALSE
  /\ processedTables \in {BuildTablesV1(file.rows, file.header) : file \in DuoFiles}
  /\ commonTopicsInput = ""
  /\ reading = NoFile
  /\ apiStatus = MSG_NONE
  /\ runs = [r \in RunIds |-> NoRun]
  /\ net = {}

NextEarly ==
  \/ \E text \in DuoTexts : setCommonTopicsInput(text)
  \/ \E index \in 0..1 : clickAnalyzeV1(index)
  \/ \E index \in 0..1 : clickTopicsAnalysisV1(index)
  \/ \E r \in RunIds, i \in 1..5, outcome \in EarlyRowOutcomes : topicsRowResponseV1(r, i, outcome)
  \/ \E r \in RunIds, outcome \in EarlyOutcomes : analyzeResponseV1(r, outcome)

SpecEarly == InitEarly /\ [][NextEarly]_vars

\* C37: in the earlier iteration a classification run sends the requests of
\* its rows one after the other, so at most one request of the run is in
\* flight at any time.
C37_OneRowRequestV1 ==
  \A r \in RunIds : runs[r].pc = "rowsWait" => Cardinality(InFlightOf(r)) <= 1

\* the step in which the analysis chained to classification r returns, no
\* other handler having run since the workbook was ingested
ChainReturnsAlone(r) ==
  /\ runs[r].pc = "analysisWait" /\ runs[r].chained
  /\ runs'[r].pc = "done"
  /\ \A q \in RunIds \ {r} : runs[q] = NoRun

\* C38: in the earlier iteration, when a classification and the overall
\* analysis it chains to have both finished, the dataset in the state is not
\* marked as being classified, every row of it holds a topicAnalysis, and its
\* summary is set.
C38_ChainKeepsClassificationV1 ==
  [][\A r \in RunIds :
       ChainReturnsAlone(r)
       => LET table == processedTables'[runs[r].index + 1]
          IN  /\ ~table.isAnalyzingTopics
              /\ \A k \in 1..Len(table.data) : Get(table.data[k], "topicAnalysis") # Undefined
              /\ Truthy(table.analysis)]_vars

====
